---- MODULE Spec2Model ----
(***************************************************************************)
(* Model of the fast-distances metric library (src/src/distances/*.rs).    *)
(*                                                                         *)
(* Every metric is a pure function of its input vectors.  A behaviour of   *)
(* the model is one call: Init draws the inputs, one action applies one    *)
(* metric and records its outcome (returned value or panic).               *)
(*                                                                         *)
(* Floating point values are modelled as extended rationals: a finite      *)
(* value is an exact fraction n/d in lowest terms, and the IEEE specials   *)
(* NaN, +Inf and -Inf are separate values with the IEEE rules for          *)
(* division by zero.  Results of irrational functions (sqrt of a           *)
(* non-square, ln, asin, powf) are kept as unevaluated terms over the      *)
(* exact accumulated sums.  Rounding is not modelled.                      *)
(***************************************************************************)
EXTENDS Integers, Sequences, FiniteSets, TLC

VARIABLES x, y, arg, fn, out

vars == <<x, y, arg, fn, out>>

(***************************************************************************)
(* Bounds of the model.                                                    *)
(***************************************************************************)
\* longest vector handed to a binary-set metric
MaxLen == 4
\* longest vector handed to an elementary metric
MaxDim == 3
\* greatest length of a slice of counts
MaxCount == 2

\* entries of the vectors handed to the binary-set metrics and to hamming
BinVals == {0, 1, 2}
\* entries of the vectors handed to the elementary metrics
ElemVals == {-1, 0, 1}

RECURSIVE SeqsUpTo(_, _)
SeqsUpTo(S, n) ==
    IF n = 0 THEN {<<>>}
    ELSE LET shorter == SeqsUpTo(S, n - 1)
         IN shorter \cup {Append(s, e) : s \in {t \in shorter : Len(t) = n - 1}, e \in S}

BinVecs == SeqsUpTo(BinVals, MaxLen)
ElemVecs == SeqsUpTo(ElemVals, MaxDim)

(***************************************************************************)
(* The scalar type (f32 / f64 behind num::Float).                          *)
(***************************************************************************)
Abs(n) == IF n < 0 THEN -n ELSE n

RECURSIVE GCD(_, _)
GCD(a, b) == IF b = 0 THEN a ELSE GCD(b, a % b)

NaN == [t |-> "nan", a |-> <<>>]
PosInf == [t |-> "inf", a |-> <<>>]
NegInf == [t |-> "ninf", a |-> <<>>]

\* the finite value n/d (d # 0), in lowest terms with a positive denominator
Rat(n, d) ==
    LET g == GCD(Abs(n), Abs(d))
        s == IF d < 0 THEN -1 ELSE 1
    IN [t |-> "rat", a |-> <<(s * n) \div g, (s * d) \div g>>]

\* conversion of an integer literal or of a usize (T::from, `as f64`)
R(n) == Rat(n, 1)
Zero == R(0)
One == R(1)
Half == Rat(1, 2)

IsRat(v) == v.t = "rat"
IsNaN(v) == v.t = "nan"
Num(v) == v.a[1]
Den(v) == v.a[2]
\* an unevaluated term: the operation tag applied to the operand values args
Sym(tag, args) == [t |-> tag, a |-> args]

IsTerm(v) == v.t \notin {"rat", "nan", "inf", "ninf"}

\* -1, 0, 1 for negative, zero, positive (of a finite value or an infinity)
SignOf(v) ==
    IF v.t = "inf" THEN 1
    ELSE IF v.t = "ninf" THEN -1
    ELSE IF Num(v) < 0 THEN -1 ELSE IF Num(v) = 0 THEN 0 ELSE 1

InfOfSign(s) == IF s > 0 THEN PosInf ELSE NegInf

FNeg(v) ==
    IF IsRat(v) THEN Rat(-Num(v), Den(v))
    ELSE IF v.t = "inf" THEN NegInf
    ELSE IF v.t = "ninf" THEN PosInf
    ELSE IF IsNaN(v) THEN NaN
    ELSE Sym("neg", <<v>>)

FAdd(u, v) ==
    IF IsNaN(u) \/ IsNaN(v) THEN NaN
    ELSE IF IsTerm(u) \/ IsTerm(v) THEN Sym("add", <<u, v>>)
    ELSE IF IsRat(u) /\ IsRat(v)
    THEN Rat(Num(u) * Den(v) + Num(v) * Den(u), Den(u) * Den(v))
    ELSE IF IsRat(u) THEN v
    ELSE IF IsRat(v) THEN u
    ELSE IF u = v THEN u ELSE NaN

FSub(u, v) ==
    IF IsNaN(u) \/ IsNaN(v) THEN NaN
    ELSE IF IsTerm(u) \/ IsTerm(v) THEN (IF u.t = v.t /\ u = v THEN Rat(0, 1) ELSE Sym("sub", <<u, v>>))
    ELSE FAdd(u, FNeg(v))

\* a term that is finite whatever its operands: a sine, a cosine, or a product
\* of finite values and such terms
IsBoundedTerm(v) ==
    \/ v.t \in {"sin", "cos"}
    \/ v.t = "sqrt" /\ v.a[1].t = "rat"
    \/ v.t = "mul" /\ \A k \in 1..2 : v.a[k].t \in {"sin", "cos", "rat"}

\* a finite term times zero is zero; any other product with a term is a term
FMul(u, v) ==
    IF IsNaN(u) \/ IsNaN(v) THEN NaN
    ELSE IF \/ IsRat(u) /\ Num(u) = 0 /\ IsBoundedTerm(v)
            \/ IsBoundedTerm(u) /\ IsRat(v) /\ Num(v) = 0
    THEN Rat(0, 1)
    ELSE IF IsTerm(u) \/ IsTerm(v) THEN Sym("mul", <<u, v>>)
    ELSE IF IsRat(u) /\ IsRat(v) THEN Rat(Num(u) * Num(v), Den(u) * Den(v))
    ELSE IF SignOf(u) = 0 \/ SignOf(v) = 0 THEN NaN
    ELSE InfOfSign(SignOf(u) * SignOf(v))

\* IEEE division: 0/0 is NaN, a non-zero value over 0 is an infinity
FDiv(u, v) ==
    IF IsNaN(u) \/ IsNaN(v) THEN NaN
    ELSE IF IsTerm(u) \/ IsTerm(v) THEN Sym("div", <<u, v>>)
    ELSE IF IsRat(u) /\ IsRat(v) THEN
        IF Num(v) # 0 THEN Rat(Num(u) * Den(v), Den(u) * Num(v))
        ELSE IF Num(u) = 0 THEN NaN
        ELSE InfOfSign(SignOf(u))
    ELSE IF IsRat(u) THEN Rat(0, 1)
    ELSE IF IsRat(v) THEN InfOfSign(SignOf(u) * (IF SignOf(v) < 0 THEN -1 ELSE 1))
    ELSE NaN

FAbs(v) ==
    IF IsRat(v) THEN Rat(Abs(Num(v)), Den(v))
    ELSE IF v.t \in {"inf", "ninf"} THEN PosInf
    ELSE IF IsNaN(v) THEN NaN
    ELSE Sym("abs", <<v>>)

\* `u > v` on finite values and infinities: false as soon as one side is NaN
FGt(u, v) ==
    IF IsRat(u) /\ IsRat(v) THEN Num(u) * Den(v) > Num(v) * Den(u)
    ELSE IF u.t \notin {"rat", "inf", "ninf"} \/ v.t \notin {"rat", "inf", "ninf"} THEN FALSE
    ELSE IF u.t = "inf" THEN v.t # "inf"
    ELSE IF v.t = "ninf" THEN u.t # "ninf"
    ELSE FALSE

\* Float::is_zero, `v == 0.0`
FIsZero(v) == IsRat(v) /\ Num(v) = 0

\* Float::max: the other operand when one is NaN
FMax(u, v) ==
    IF IsNaN(u) THEN v ELSE IF IsNaN(v) THEN u ELSE IF FGt(v, u) THEN v ELSE u

RECURSIVE ISqrtIn(_, _, _)
\* the r in lo..hi-1 with r*r <= n < (r+1)*(r+1), by bisection
ISqrtIn(n, lo, hi) ==
    IF hi - lo <= 1 THEN lo
    ELSE LET mid == (lo + hi) \div 2
         IN IF mid * mid <= n THEN ISqrtIn(n, mid, hi) ELSE ISqrtIn(n, lo, mid)

\* the largest r >= k with r*r <= n (46341 squared exceeds every 32-bit n)
ISqrt(n, k) == ISqrtIn(n, k, 46341)

IsSquare(n) == n >= 0 /\ ISqrt(n, 0) * ISqrt(n, 0) = n

\* Float::sqrt: exact on squares of fractions, NaN below zero, a term otherwise
FSqrt(v) ==
    IF IsRat(v) THEN
        IF Num(v) < 0 THEN NaN
        ELSE IF IsSquare(Num(v)) /\ IsSquare(Den(v))
        THEN Rat(ISqrt(Num(v), 0), ISqrt(Den(v), 0))
        ELSE Sym("sqrt", <<v>>)
    ELSE IF v.t = "inf" THEN PosInf
    ELSE IF v.t \in {"nan", "ninf"} THEN NaN
    ELSE Sym("sqrt", <<v>>)

RECURSIVE IPow(_, _)
IPow(b, e) == IF e = 0 THEN 1 ELSE b * IPow(b, e - 1)

\* |b| compared with 1 for a finite value or an infinity: -1, 0, 1
MagVsOne(b) ==
    IF ~IsRat(b) THEN 1
    ELSE IF Abs(Num(b)) < Den(b) THEN -1 ELSE IF Abs(Num(b)) = Den(b) THEN 0 ELSE 1

\* Float::powf (and powi for a whole exponent), with the IEEE special cases:
\* pow(b, 0) = 1 and pow(1, e) = 1 for every operand, NaN included; an infinite
\* exponent gives 0, 1 or +Inf by |b| against 1; exponent 1/2 is the square
\* root; a whole exponent is exact; any other case is a term
FPowf(b, e) ==
    IF FIsZero(e) \/ (IsRat(b) /\ Num(b) = Den(b)) THEN Rat(1, 1)
    ELSE IF IsNaN(b) \/ IsNaN(e) THEN NaN
    ELSE IF IsTerm(b) \/ IsTerm(e) THEN Sym("powf", <<b, e>>)
    ELSE IF ~IsRat(e) THEN
        LET m == MagVsOne(b) * (IF e.t = "inf" THEN 1 ELSE -1)
        IN IF m = 0 THEN Rat(1, 1) ELSE IF m > 0 THEN PosInf ELSE Rat(0, 1)
    ELSE IF ~IsRat(b) THEN
        IF Num(e) < 0 THEN Rat(0, 1)
        ELSE IF b.t = "ninf" /\ Den(e) = 1 /\ Num(e) % 2 = 1 THEN NegInf
        ELSE PosInf
    ELSE IF Num(b) = 0 THEN (IF Num(e) > 0 THEN b ELSE PosInf)
    ELSE IF Den(e) = 1 /\ Num(e) > 0 THEN Rat(IPow(Num(b), Num(e)), IPow(Den(b), Num(e)))
    ELSE IF Den(e) = 1 THEN Rat(IPow(Den(b), -Num(e)), IPow(Num(b), -Num(e)))
    ELSE IF Num(e) = 1 /\ Den(e) = 2 THEN FSqrt(b)
    ELSE IF Num(b) < 0 THEN NaN
    ELSE Sym("powf", <<b, e>>)

\* Float::signum: 1 for a positive value and for zero (the inputs of the
\* model hold no negative zero), -1 for a negative value, NaN for NaN
FSignum(v) ==
    IF IsNaN(v) THEN NaN
    ELSE IF IsTerm(v) THEN Sym("signum", <<v>>)
    ELSE IF SignOf(v) < 0 THEN Rat(-1, 1) ELSE Rat(1, 1)

\* Float::ln_1p, ln(1 + v)
FLn1p(v) ==
    IF IsRat(v) THEN
        IF Num(v) = 0 THEN v
        ELSE IF Num(v) + Den(v) < 0 THEN NaN
        ELSE IF Num(v) + Den(v) = 0 THEN NegInf
        ELSE Sym("ln_1p", <<v>>)
    ELSE IF v.t = "inf" THEN PosInf
    ELSE IF v.t \in {"nan", "ninf"} THEN NaN
    ELSE Sym("ln_1p", <<v>>)

\* Float::ln: 0 at 1, -Inf at 0, NaN below 0, a term otherwise
FLn(v) ==
    IF IsRat(v) THEN
        IF Num(v) = Den(v) THEN Rat(0, 1)
        ELSE IF Num(v) = 0 THEN NegInf
        ELSE IF Num(v) < 0 THEN NaN
        ELSE Sym("ln", <<v>>)
    ELSE IF v.t = "inf" THEN PosInf
    ELSE IF v.t \in {"nan", "ninf"} THEN NaN
    ELSE Sym("ln", <<v>>)

\* Float::min: the other operand when one is NaN
FMin(u, v) ==
    IF IsNaN(u) THEN v ELSE IF IsNaN(v) THEN u ELSE IF FGt(u, v) THEN v ELSE u

\* Float::acosh: 0 at 1, NaN below 1, a term otherwise
FAcosh(v) ==
    IF IsRat(v) THEN
        IF Num(v) = Den(v) THEN Rat(0, 1)
        ELSE IF Num(v) < Den(v) THEN NaN
        ELSE Sym("acosh", <<v>>)
    ELSE IF v.t = "inf" THEN PosInf
    ELSE IF v.t \in {"nan", "ninf"} THEN NaN
    ELSE Sym("acosh", <<v>>)

\* Float::sin and Float::cos: exact at 0 only
FSin(v) == IF FIsZero(v) THEN v ELSE IF IsRat(v) \/ IsTerm(v) THEN Sym("sin", <<v>>) ELSE NaN
FCos(v) ==
    IF FIsZero(v) THEN Rat(1, 1) ELSE IF IsRat(v) \/ IsTerm(v) THEN Sym("cos", <<v>>) ELSE NaN
\* Float::asin: exact at 0 only
FAsin(v) == IF FIsZero(v) THEN v ELSE IF IsRat(v) \/ IsTerm(v) THEN Sym("asin", <<v>>) ELSE NaN

\* a vector entry as a scalar
E(e) == Rat(e, 1)

\* `u == v` as values: equal terms, where the two operands of an addition or
\* of a multiplication may come in either order (both are commutative in
\* IEEE arithmetic); NaN is taken equal to NaN, as an outcome
RECURSIVE FSame(_, _)
FSame(u, v) ==
    /\ u.t = v.t
    /\ Len(u.a) = Len(v.a)
    /\ IF ~IsTerm(u) THEN u = v
       ELSE \/ \A k \in 1..Len(u.a) : FSame(u.a[k], v.a[k])
            \/ /\ u.t \in {"add", "mul"}
               /\ FSame(u.a[1], v.a[2])
               /\ FSame(u.a[2], v.a[1])

(***************************************************************************)
(* Outcome of a call.                                                      *)
(*   st    "ok" (returned v) or "panic" (contract failure, no value)       *)
(*   reads number of entries of the two input vectors read by the call     *)
(*   divs  number of floating point divisions performed                    *)
(***************************************************************************)
None == [st |-> "none", v |-> NaN, reads |-> 0, divs |-> 0]
Ok(v, reads, divs) == [st |-> "ok", v |-> v, reads |-> reads, divs |-> divs]
Panic(reads, divs) == [st |-> "panic", v |-> NaN, reads |-> reads, divs |-> divs]

\* `for i in 0..x.len() { .. x[i] .. y[i] .. }` with y shorter than x: the
\* bounds check of y[y.len()] panics, after y.len() complete iterations of
\* k reads each and the read of x[y.len()]
IndexPanic(k, ys) == Panic(k * Len(ys) + 1, 0)

(***************************************************************************)
(* Binary-set metrics.  An entry is true iff it is not equal to zero.  The *)
(* counters are floats that only ever hold small whole numbers; they are   *)
(* kept as integers and converted where the closed form is evaluated.      *)
(* Loop operators give the counters after the first i iterations.          *)
(***************************************************************************)
\* the increment with the test inverted
B2N_mut(b) == IF b THEN 0 ELSE 1

B2N(b) == IF b THEN 1 ELSE 0

RECURSIVE jaccard_loop(_, _, _)
jaccard_loop(xs, ys, i) ==
    IF i = 0 THEN [num_non_zero |-> 0, num_equal |-> 0]
    ELSE LET c == jaccard_loop(xs, ys, i - 1)
             x_true == xs[i] # 0
             y_true == ys[i] # 0
         IN [num_non_zero |-> c.num_non_zero + B2N(x_true \/ y_true),
             num_equal |-> c.num_equal + B2N(x_true /\ y_true)]

jaccard(xs, ys) ==
    IF Len(ys) < Len(xs) THEN IndexPanic(2, ys)
    ELSE LET c == jaccard_loop(xs, ys, Len(xs))
         IN IF c.num_non_zero = 0 THEN Ok(Zero, 2 * Len(xs), 0)
            ELSE Ok(FDiv(FSub(R(c.num_non_zero), R(c.num_equal)), R(c.num_non_zero)),
                    2 * Len(xs), 1)

\* the counting loop shared, copy for copy, by dice, kulsinski and sokal_sneath
RECURSIVE dice_loop(_, _, _)
dice_loop(xs, ys, i) ==
    IF i = 0 THEN [num_true_true |-> 0, num_not_equal |-> 0]
    ELSE LET c == dice_loop(xs, ys, i - 1)
             x_true == xs[i] # 0
             y_true == ys[i] # 0
         IN [num_true_true |-> c.num_true_true + B2N(x_true /\ y_true),
             num_not_equal |-> c.num_not_equal + B2N(x_true # y_true)]

dice(xs, ys) ==
    IF Len(ys) < Len(xs) THEN IndexPanic(2, ys)
    ELSE LET c == dice_loop(xs, ys, Len(xs))
         IN IF c.num_not_equal = 0 THEN Ok(Zero, 2 * Len(xs), 0)
            ELSE Ok(FDiv(R(c.num_not_equal),
                         FAdd(FMul(R(2), R(c.num_true_true)), R(c.num_not_equal))),
                    2 * Len(xs), 1)

RECURSIVE kulsinski_loop(_, _, _)
kulsinski_loop(xs, ys, i) ==
    IF i = 0 THEN [num_true_true |-> 0, num_not_equal |-> 0]
    ELSE LET c == kulsinski_loop(xs, ys, i - 1)
             x_true == xs[i] # 0
             y_true == ys[i] # 0
         IN [num_true_true |-> c.num_true_true + B2N(x_true /\ y_true),
             num_not_equal |-> c.num_not_equal + B2N(x_true # y_true)]

\* kulsinski with the true-true count left out of the numerator
kulsinski_mut(xs, ys) ==
    IF Len(ys) < Len(xs) THEN IndexPanic(2, ys)
    ELSE LET c == kulsinski_loop(xs, ys, Len(xs))
         IN IF c.num_not_equal = 0 THEN Ok(Zero, 2 * Len(xs), 0)
            ELSE Ok(FDiv(FAdd(R(c.num_not_equal), R(Len(xs))),
                         FAdd(R(c.num_not_equal), R(Len(xs)))),
                    2 * Len(xs), 1)

kulsinski(xs, ys) ==
    IF Len(ys) < Len(xs) THEN IndexPanic(2, ys)
    ELSE LET c == kulsinski_loop(xs, ys, Len(xs))
         IN IF c.num_not_equal = 0 THEN Ok(Zero, 2 * Len(xs), 0)
            ELSE Ok(FDiv(FAdd(FSub(R(c.num_not_equal), R(c.num_true_true)), R(Len(xs))),
                         FAdd(R(c.num_not_equal), R(Len(xs)))),
                    2 * Len(xs), 1)

RECURSIVE sokal_sneath_loop(_, _, _)
sokal_sneath_loop(xs, ys, i) ==
    IF i = 0 THEN [num_true_true |-> 0, num_not_equal |-> 0]
    ELSE LET c == sokal_sneath_loop(xs, ys, i - 1)
             x_true == xs[i] # 0
             y_true == ys[i] # 0
         IN [num_true_true |-> c.num_true_true + B2N(x_true /\ y_true),
             num_not_equal |-> c.num_not_equal + B2N(x_true # y_true)]

sokal_sneath(xs, ys) ==
    IF Len(ys) < Len(xs) THEN IndexPanic(2, ys)
    ELSE LET c == sokal_sneath_loop(xs, ys, Len(xs))
         IN IF c.num_not_equal = 0 THEN Ok(Zero, 2 * Len(xs), 0)
            ELSE Ok(FDiv(R(c.num_not_equal),
                         FAdd(FMul(Half, R(c.num_true_true)), R(c.num_not_equal))),
                    2 * Len(xs), 1)

RECURSIVE yule_loop(_, _, _)
yule_loop(xs, ys, i) ==
    IF i = 0 THEN [num_true_true |-> 0, num_true_false |-> 0, num_false_true |-> 0]
    ELSE LET c == yule_loop(xs, ys, i - 1)
             x_true == xs[i] # 0
             y_true == ys[i] # 0
         IN IF x_true /\ y_true
            THEN [c EXCEPT !.num_true_true = @ + 1]
            ELSE IF x_true /\ ~y_true
            THEN [c EXCEPT !.num_true_false = @ + 1]
            ELSE IF ~x_true /\ y_true
            THEN [c EXCEPT !.num_false_true = @ + 1]
            ELSE c

\* yule returning early only when both off-diagonal counts are zero
yule_mut(xs, ys) ==
    IF Len(xs) # Len(ys) THEN Panic(0, 0)
    ELSE LET c == yule_loop(xs, ys, Len(xs))
             num_false_false ==
                 Len(xs) - c.num_true_true - c.num_true_false - c.num_false_true
         IN IF c.num_true_false = 0 /\ c.num_false_true = 0 THEN Ok(Zero, 2 * Len(xs), 0)
            ELSE Ok(FDiv(FMul(FMul(R(2), R(c.num_true_false)), R(c.num_false_true)),
                         FAdd(FMul(R(c.num_true_true), R(num_false_false)),
                              FMul(R(c.num_true_false), R(c.num_false_true)))),
                    2 * Len(xs), 1)

\* the three counts of the pass, and the fourth by subtraction from the length
\* with one count dropped
yule_counts_mut(xs, ys) ==
    LET c == yule_loop(xs, ys, Len(xs))
    IN [num_true_true |-> c.num_true_true,
        num_true_false |-> c.num_true_false,
        num_false_true |-> c.num_false_true,
        num_false_false |-> Len(xs) - c.num_true_true - c.num_true_false]

\* the three counts of the pass, and the fourth by subtraction from the length
yule_counts(xs, ys) ==
    LET c == yule_loop(xs, ys, Len(xs))
    IN [num_true_true |-> c.num_true_true,
        num_true_false |-> c.num_true_false,
        num_false_true |-> c.num_false_true,
        num_false_false |->
            Len(xs) - c.num_true_true - c.num_true_false - c.num_false_true]

yule(xs, ys) ==
    IF Len(xs) # Len(ys) THEN Panic(0, 0)
    ELSE LET c == yule_counts(xs, ys)
         IN IF c.num_true_false = 0 \/ c.num_false_true = 0 THEN Ok(Zero, 2 * Len(xs), 0)
            ELSE Ok(FDiv(FMul(FMul(R(2), R(c.num_true_false)), R(c.num_false_true)),
                         FAdd(FMul(R(c.num_true_true), R(c.num_false_false)),
                              FMul(R(c.num_true_false), R(c.num_false_true)))),
                    2 * Len(xs), 1)

RECURSIVE russell_rao_loop(_, _, _)
russell_rao_loop(xs, ys, i) ==
    IF i = 0 THEN 0
    ELSE LET x_true == xs[i] # 0
             y_true == ys[i] # 0
         IN russell_rao_loop(xs, ys, i - 1) + B2N(x_true /\ y_true)

\* v.iter().filter(|&&val| val != 0.0).count() over the first i entries
RECURSIVE CountNonZero(_, _)
CountNonZero(vs, i) ==
    IF i = 0 THEN 0 ELSE CountNonZero(vs, i - 1) + B2N(vs[i] # 0)

\* russell_rao without the branch that forces 0
russell_rao_mut(xs, ys) ==
    IF Len(ys) < Len(xs) THEN IndexPanic(2, ys)
    ELSE LET num_true_true == russell_rao_loop(xs, ys, Len(xs))
         IN Ok(FDiv(FSub(R(Len(xs)), R(num_true_true)), R(Len(xs))),
               3 * Len(xs) + Len(ys), 1)

russell_rao(xs, ys) ==
    IF Len(ys) < Len(xs) THEN IndexPanic(2, ys)
    ELSE LET num_true_true == russell_rao_loop(xs, ys, Len(xs))
             sum_x == CountNonZero(xs, Len(xs))
             sum_y == CountNonZero(ys, Len(ys))
             reads == 3 * Len(xs) + Len(ys)
         IN IF num_true_true = sum_x /\ num_true_true = sum_y THEN Ok(Zero, reads, 0)
            ELSE Ok(FDiv(FSub(R(Len(xs)), R(num_true_true)), R(Len(xs))), reads, 1)

RECURSIVE rogers_tanimoto_loop(_, _, _)
rogers_tanimoto_loop(xs, ys, i) ==
    IF i = 0 THEN 0
    ELSE LET x_true == xs[i] # 0
             y_true == ys[i] # 0
         IN rogers_tanimoto_loop(xs, ys, i - 1) + B2N(x_true # y_true)

\* the closed form with the length alone as denominator
rogers_tanimoto_mut(xs, ys) ==
    IF Len(ys) < Len(xs) THEN IndexPanic(2, ys)
    ELSE LET num_not_equal == rogers_tanimoto_loop(xs, ys, Len(xs))
         IN Ok(FDiv(FMul(R(2), R(num_not_equal)), R(Len(xs))), 2 * Len(xs), 1)

rogers_tanimoto(xs, ys) ==
    IF Len(ys) < Len(xs) THEN IndexPanic(2, ys)
    ELSE LET num_not_equal == rogers_tanimoto_loop(xs, ys, Len(xs))
         IN Ok(FDiv(FMul(R(2), R(num_not_equal)), FAdd(R(Len(xs)), R(num_not_equal))),
               2 * Len(xs), 1)

RECURSIVE sokal_michener_loop(_, _, _)
sokal_michener_loop(xs, ys, i) ==
    IF i = 0 THEN 0
    ELSE LET x_true == xs[i] # 0
             y_true == ys[i] # 0
         IN sokal_michener_loop(xs, ys, i - 1) + (IF x_true # y_true THEN 1 ELSE 0)

\* sokal_michener without the factor 2
sokal_michener_mut(xs, ys) ==
    IF Len(ys) < Len(xs) THEN IndexPanic(2, ys)
    ELSE LET num_not_equal == sokal_michener_loop(xs, ys, Len(xs))
         IN Ok(FDiv(R(num_not_equal), FAdd(R(Len(xs)), R(num_not_equal))),
               2 * Len(xs), 1)

sokal_michener(xs, ys) ==
    IF Len(ys) < Len(xs) THEN IndexPanic(2, ys)
    ELSE LET num_not_equal == sokal_michener_loop(xs, ys, Len(xs))
         IN Ok(FDiv(FMul(R(2), R(num_not_equal)), FAdd(R(Len(xs)), R(num_not_equal))),
               2 * Len(xs), 1)

RECURSIVE matching_loop(_, _, _)
matching_loop(xs, ys, i) ==
    IF i = 0 THEN 0
    ELSE LET x_true == xs[i] # 0
             y_true == ys[i] # 0
         IN matching_loop(xs, ys, i - 1) + B2N(x_true # y_true)

\* matching returning the share of agreeing entries (the similarity)
matching_mut(xs, ys) ==
    IF Len(ys) < Len(xs) THEN IndexPanic(2, ys)
    ELSE Ok(FDiv(R(Len(xs) - matching_loop(xs, ys, Len(xs))), R(Len(xs))), 2 * Len(xs), 1)

matching(xs, ys) ==
    IF Len(ys) < Len(xs) THEN IndexPanic(2, ys)
    ELSE Ok(FDiv(R(matching_loop(xs, ys, Len(xs))), R(Len(xs))), 2 * Len(xs), 1)

\* hamming compares the raw entries (T: PartialEq), not their truth values
RECURSIVE hamming_loop(_, _, _)
hamming_loop(xs, ys, i) ==
    IF i = 0 THEN 0
    ELSE hamming_loop(xs, ys, i - 1) + (IF xs[i] # ys[i] THEN 1 ELSE 0)

\* hamming returning 0 on empty input
hamming_mut(xs, ys) ==
    IF Len(xs) # Len(ys) THEN Panic(0, 0)
    ELSE IF Len(xs) = 0 THEN Ok(Zero, 0, 0)
    ELSE Ok(FDiv(R(hamming_loop(xs, ys, Len(xs))), R(Len(xs))), 2 * Len(xs), 1)

hamming(xs, ys) ==
    IF Len(xs) # Len(ys) THEN Panic(0, 0)
    ELSE Ok(FDiv(R(hamming_loop(xs, ys, Len(xs))), R(Len(xs))), 2 * Len(xs), 1)

(***************************************************************************)
(* Elementary metrics.  Loop operators give the accumulators after the     *)
(* first i iterations.                                                     *)
(***************************************************************************)
\* an optional parameter: Option<..>
NoneOpt == [some |-> FALSE, val |-> <<>>]
Some(val) == [some |-> TRUE, val |-> val]

Min(a, b) == IF a < b THEN a ELSE b

\* x.iter().zip(y.iter()).map(|(&xi, &yi)| (xi - yi).abs()).sum()
RECURSIVE manhattan_sum(_, _, _)
manhattan_sum(xs, ys, i) ==
    IF i = 0 THEN Zero
    ELSE FAdd(manhattan_sum(xs, ys, i - 1), FAbs(FSub(E(xs[i]), E(ys[i]))))

manhattan(xs, ys) ==
    IF Len(xs) # Len(ys) THEN Panic(0, 0)
    ELSE Ok(manhattan_sum(xs, ys, Min(Len(xs), Len(ys))), 2 * Len(xs), 0)

RECURSIVE canberra_loop(_, _, _)
canberra_loop(xs, ys, i) ==
    IF i = 0 THEN [result |-> Zero, divs |-> 0]
    ELSE LET c == canberra_loop(xs, ys, i - 1)
             denominator == FAdd(FAbs(E(xs[i])), FAbs(E(ys[i])))
         IN IF FGt(denominator, Zero)
            THEN [result |-> FAdd(c.result, FDiv(FAbs(FSub(E(xs[i]), E(ys[i]))), denominator)),
                  divs |-> c.divs + 1]
            ELSE c

canberra(xs, ys) ==
    IF Len(xs) # Len(ys) THEN Panic(0, 0)
    ELSE LET c == canberra_loop(xs, ys, Len(xs))
         IN Ok(c.result, 2 * Len(xs) + 2 * c.divs, c.divs)

RECURSIVE euclidean_loop(_, _, _)
euclidean_loop(xs, ys, i) ==
    IF i = 0 THEN Zero
    ELSE LET diff == FSub(E(xs[i]), E(ys[i]))
         IN FAdd(euclidean_loop(xs, ys, i - 1), FMul(diff, diff))

euclidean(xs, ys) ==
    IF Len(xs) # Len(ys) THEN Panic(0, 0)
    ELSE Ok(FSqrt(euclidean_loop(xs, ys, Len(xs))), 2 * Len(xs), 0)

RECURSIVE chebyshev_loop(_, _, _)
chebyshev_loop(xs, ys, i) ==
    IF i = 0 THEN Zero
    ELSE FMax(chebyshev_loop(xs, ys, i - 1), FAbs(FSub(E(xs[i]), E(ys[i]))))

chebyshev(xs, ys) ==
    IF Len(xs) # Len(ys) THEN Panic(0, 0)
    ELSE Ok(chebyshev_loop(xs, ys, Len(xs)), 2 * Len(xs), 0)

\* haversine rejecting the input only when both vectors have a wrong length;
\* the reads of a missing entry then panic
haversine_mut(xs, ys) ==
    IF Len(xs) # 2 /\ Len(ys) # 2 THEN Panic(0, 0)
    ELSE IF Len(xs) < 2 \/ Len(ys) < 2
    THEN Panic(IF Len(xs) = 0 THEN 0 ELSE IF Len(ys) = 0 THEN 1 ELSE 2, 0)
    ELSE LET sin_lat == FSin(FMul(Half, FSub(E(xs[1]), E(ys[1]))))
             sin_long == FSin(FMul(Half, FSub(E(xs[2]), E(ys[2]))))
             result == FSqrt(FAdd(FPowf(sin_lat, R(2)),
                                  FMul(FMul(FCos(E(xs[1])), FCos(E(ys[1]))),
                                       FPowf(sin_long, R(2)))))
         IN Ok(FMul(R(2), FAsin(result)), 6, 0)

haversine(xs, ys) ==
    IF Len(xs) # 2 \/ Len(ys) # 2 THEN Panic(0, 0)
    ELSE LET sin_lat == FSin(FMul(Half, FSub(E(xs[1]), E(ys[1]))))
             sin_long == FSin(FMul(Half, FSub(E(xs[2]), E(ys[2]))))
             result == FSqrt(FAdd(FPowf(sin_lat, R(2)),
                                  FMul(FMul(FCos(E(xs[1])), FCos(E(ys[1]))),
                                       FPowf(sin_long, R(2)))))
         IN Ok(FMul(R(2), FAsin(result)), 6, 0)

RECURSIVE bray_curtis_loop(_, _, _)
bray_curtis_loop(xs, ys, i) ==
    IF i = 0 THEN [numerator |-> Zero, denominator |-> Zero]
    ELSE LET c == bray_curtis_loop(xs, ys, i - 1)
         IN [numerator |-> FAdd(c.numerator, FAbs(FSub(E(xs[i]), E(ys[i])))),
             denominator |-> FAdd(c.denominator, FAbs(FAdd(E(xs[i]), E(ys[i]))))]

\* bray_curtis dividing without a look at the denominator
bray_curtis_mut(xs, ys) ==
    IF Len(ys) < Len(xs) THEN IndexPanic(4, ys)
    ELSE LET c == bray_curtis_loop(xs, ys, Len(xs))
         IN Ok(FDiv(c.numerator, c.denominator), 4 * Len(xs), 1)

bray_curtis(xs, ys) ==
    IF Len(ys) < Len(xs) THEN IndexPanic(4, ys)
    ELSE LET c == bray_curtis_loop(xs, ys, Len(xs))
         IN IF FGt(c.denominator, Zero)
            THEN Ok(FDiv(c.numerator, c.denominator), 4 * Len(xs), 1)
            ELSE Ok(Zero, 4 * Len(xs), 0)

RECURSIVE cosine_loop(_, _, _)
cosine_loop(xs, ys, i) ==
    IF i = 0 THEN [result |-> Zero, norm_x |-> Zero, norm_y |-> Zero]
    ELSE LET c == cosine_loop(xs, ys, i - 1)
         IN [result |-> FAdd(c.result, FMul(E(xs[i]), E(ys[i]))),
             norm_x |-> FAdd(c.norm_x, FMul(E(xs[i]), E(xs[i]))),
             norm_y |-> FAdd(c.norm_y, FMul(E(ys[i]), E(ys[i])))]

\* cosine testing "one norm is zero" before "both norms are zero"
cosine_mut(xs, ys) ==
    IF Len(ys) < Len(xs) THEN IndexPanic(6, ys)
    ELSE LET c == cosine_loop(xs, ys, Len(xs))
             reads == 6 * Len(xs)
         IN IF FIsZero(c.norm_x) \/ FIsZero(c.norm_y) THEN Ok(One, reads, 0)
            ELSE IF FIsZero(c.norm_x) /\ FIsZero(c.norm_y) THEN Ok(Zero, reads, 0)
            ELSE Ok(FSub(One, FDiv(c.result, FMul(FSqrt(c.norm_x), FSqrt(c.norm_y)))),
                    reads, 1)

cosine(xs, ys) ==
    IF Len(ys) < Len(xs) THEN IndexPanic(6, ys)
    ELSE LET c == cosine_loop(xs, ys, Len(xs))
             reads == 6 * Len(xs)
         IN IF FIsZero(c.norm_x) /\ FIsZero(c.norm_y) THEN Ok(Zero, reads, 0)
            ELSE IF FIsZero(c.norm_x) \/ FIsZero(c.norm_y) THEN Ok(One, reads, 0)
            ELSE Ok(FSub(One, FDiv(c.result, FMul(FSqrt(c.norm_x), FSqrt(c.norm_y)))),
                    reads, 1)

\* first loop of correlation: the sums of the entries
RECURSIVE correlation_sums(_, _, _)
correlation_sums(xs, ys, i) ==
    IF i = 0 THEN [mu_x |-> Zero, mu_y |-> Zero]
    ELSE LET c == correlation_sums(xs, ys, i - 1)
         IN [mu_x |-> FAdd(c.mu_x, E(xs[i])), mu_y |-> FAdd(c.mu_y, E(ys[i]))]

\* second loop of correlation: the centred norms and dot product
RECURSIVE correlation_loop(_, _, _, _, _)
correlation_loop(xs, ys, mu_x, mu_y, i) ==
    IF i = 0 THEN [norm_x |-> Zero, norm_y |-> Zero, dot_product |-> Zero]
    ELSE LET c == correlation_loop(xs, ys, mu_x, mu_y, i - 1)
             shifted_x == FSub(E(xs[i]), mu_x)
             shifted_y == FSub(E(ys[i]), mu_y)
         IN [norm_x |-> FAdd(c.norm_x, FMul(shifted_x, shifted_x)),
             norm_y |-> FAdd(c.norm_y, FMul(shifted_y, shifted_y)),
             dot_product |-> FAdd(c.dot_product, FMul(shifted_x, shifted_y))]

\* correlation centring y by the mean of x
correlation_mut(xs, ys) ==
    IF Len(ys) < Len(xs) THEN IndexPanic(2, ys)
    ELSE LET sums == correlation_sums(xs, ys, Len(xs))
             mu_x == FDiv(sums.mu_x, R(Len(xs)))
             mu_y == FDiv(sums.mu_x, R(Len(ys)))
             c == correlation_loop(xs, ys, mu_x, mu_y, Len(xs))
             reads == 4 * Len(xs)
         IN IF FIsZero(c.norm_x) /\ FIsZero(c.norm_y) THEN Ok(Zero, reads, 2)
            ELSE IF FIsZero(c.dot_product) THEN Ok(One, reads, 2)
            ELSE Ok(FSub(One, FDiv(c.dot_product, FMul(FSqrt(c.norm_x), FSqrt(c.norm_y)))),
                    reads, 3)

correlation(xs, ys) ==
    IF Len(ys) < Len(xs) THEN IndexPanic(2, ys)
    ELSE LET sums == correlation_sums(xs, ys, Len(xs))
             mu_x == FDiv(sums.mu_x, R(Len(xs)))
             mu_y == FDiv(sums.mu_y, R(Len(ys)))
             c == correlation_loop(xs, ys, mu_x, mu_y, Len(xs))
             reads == 4 * Len(xs)
         IN IF FIsZero(c.norm_x) /\ FIsZero(c.norm_y) THEN Ok(Zero, reads, 2)
            ELSE IF FIsZero(c.dot_product) THEN Ok(One, reads, 2)
            ELSE Ok(FSub(One, FDiv(c.dot_product, FMul(FSqrt(c.norm_x), FSqrt(c.norm_y)))),
                    reads, 3)

RECURSIVE hellinger_loop(_, _, _)
hellinger_loop(xs, ys, i) ==
    IF i = 0 THEN [result |-> Zero, l1_norm_x |-> Zero, l1_norm_y |-> Zero]
    ELSE LET c == hellinger_loop(xs, ys, i - 1)
         IN [result |-> FAdd(c.result, FSqrt(FMul(E(xs[i]), E(ys[i])))),
             l1_norm_x |-> FAdd(c.l1_norm_x, E(xs[i])),
             l1_norm_y |-> FAdd(c.l1_norm_y, E(ys[i]))]

hellinger(xs, ys) ==
    IF Len(ys) < Len(xs) THEN IndexPanic(4, ys)
    ELSE LET c == hellinger_loop(xs, ys, Len(xs))
             reads == 4 * Len(xs)
         IN IF FIsZero(c.l1_norm_x) /\ FIsZero(c.l1_norm_y) THEN Ok(Zero, reads, 0)
            ELSE IF FIsZero(c.l1_norm_x) \/ FIsZero(c.l1_norm_y) THEN Ok(One, reads, 0)
            ELSE Ok(FSub(One, FDiv(c.result, FSqrt(FMul(c.l1_norm_x, c.l1_norm_y)))),
                    reads, 1)

\* v.iter().map(|&x| x * x).sum() over the first i entries
RECURSIVE SumSquares(_, _)
SumSquares(vs, i) ==
    IF i = 0 THEN Zero ELSE FAdd(SumSquares(vs, i - 1), FMul(E(vs[i]), E(vs[i])))

\* u.iter().zip(v.iter()).map(|(&a, &b)| (a - b).powi(2)).sum(): zip stops at
\* the end of the shorter vector
RECURSIVE poincare_sq_dist(_, _, _)
poincare_sq_dist(us, vs, i) ==
    IF i = 0 THEN Zero
    ELSE FAdd(poincare_sq_dist(us, vs, i - 1), FPowf(FSub(E(us[i]), E(vs[i])), R(2)))

AllZero(vs) == \A i \in 1..Len(vs) : FIsZero(E(vs[i]))

\* entries read by vs.iter().all(|&x| x.is_zero()): up to the first non-zero one
AllReads(vs) ==
    IF AllZero(vs) THEN Len(vs)
    ELSE CHOOSE i \in 1..Len(vs) : ~FIsZero(E(vs[i])) /\ \A j \in 1..(i - 1) : FIsZero(E(vs[j]))

\* the general formula of poincare, after the zero-vector test read all_reads entries
poincare_general(us, vs, all_reads) ==
    LET sq_u_norm == SumSquares(us, Len(us))
        sq_v_norm == SumSquares(vs, Len(vs))
        sq_dist == poincare_sq_dist(us, vs, Min(Len(us), Len(vs)))
        delta == FDiv(FMul(R(2), sq_dist),
                      FMul(FSub(One, sq_u_norm), FSub(One, sq_v_norm)))
        result == FLn1p(FAdd(One, delta))
    IN Ok(result, all_reads + Len(us) + Len(vs) + 2 * Min(Len(us), Len(vs)), 1)

poincare(us, vs) ==
    IF AllZero(us) /\ AllZero(vs) THEN Ok(Zero, Len(us) + Len(vs), 0)
    ELSE LET all_reads == AllReads(us) + (IF AllZero(us) THEN AllReads(vs) ELSE 0)
         IN poincare_general(us, vs, all_reads)


\* identity_matrix filled with ones off the diagonal as well
identity_matrix_mut(n) == [i \in 1..n |-> [j \in 1..n |-> One]]

\* utils::identity_matrix: the n x n matrix as a sequence of rows
identity_matrix(n) == [i \in 1..n |-> [j \in 1..n |-> IF i = j THEN One ELSE Zero]]

\* the matrix has an entry (i, j): ndarray's bounds check of vinv[(i, j)]
InMatrix(m, i, j) == i <= Len(m) /\ j <= Len(m[i])

RECURSIVE mahalanobis_row(_, _, _, _)
\* inner loop: sum over the first j columns of vinv[(i, j)] * diff[j]
\* steps counts the executions of the inner loop body
mahalanobis_row(m, diff, i, j) ==
    IF j = 0 THEN [tmp |-> Zero, steps |-> 0]
    ELSE LET r == mahalanobis_row(m, diff, i, j - 1)
         IN [tmp |-> FAdd(r.tmp, FMul(m[i][j], diff[j])), steps |-> r.steps + 1]

RECURSIVE mahalanobis_loop(_, _, _, _)
\* rows counts the executions of the outer loop body, steps those of the inner
mahalanobis_loop(m, diff, n, i) ==
    IF i = 0 THEN [result |-> Zero, rows |-> 0, steps |-> 0]
    ELSE LET c == mahalanobis_loop(m, diff, n, i - 1)
             r == mahalanobis_row(m, diff, i, n)
         IN [result |-> FAdd(c.result, FMul(r.tmp, diff[i])),
             rows |-> c.rows + 1, steps |-> c.steps + r.steps]

mahalanobis(xs, ys, vinv) ==
    LET n == Len(xs)
        m == IF vinv.some THEN vinv.val ELSE identity_matrix(n)
    IN IF Len(ys) < n THEN IndexPanic(2, ys)
       ELSE IF \E i, j \in 1..n : ~InMatrix(m, i, j) THEN Panic(2 * n, 0)
       ELSE LET diff == [i \in 1..n |-> FSub(E(xs[i]), E(ys[i]))]
                c == mahalanobis_loop(m, diff, n, n)
            IN [st |-> "ok", v |-> FSqrt(c.result), reads |-> 2 * n, divs |-> 0,
                rows |-> c.rows, steps |-> c.steps]

RECURSIVE weighted_minkowski_loop(_, _, _, _, _)
weighted_minkowski_loop(xs, ys, w, p, i) ==
    IF i = 0 THEN Zero
    ELSE FAdd(weighted_minkowski_loop(xs, ys, w, p, i - 1),
              FMul(w[i], FPowf(FAbs(FSub(E(xs[i]), E(ys[i]))), p)))

weighted_minkowski(xs, ys, wopt, p) ==
    LET n == Len(xs)
        w == IF wopt.some THEN wopt.val ELSE [i \in 1..n |-> One]
    IN IF Len(w) < n \/ Len(ys) < n
       THEN Panic(IF Len(w) <= Len(ys) THEN 2 * Len(w) ELSE 2 * Len(ys) + 1, 0)
       ELSE Ok(FPowf(weighted_minkowski_loop(xs, ys, w, p, n), FDiv(One, p)), 2 * n, 1)

RECURSIVE minkowski_loop(_, _, _, _)
minkowski_loop(xs, ys, p, i) ==
    IF i = 0 THEN Zero
    ELSE FAdd(minkowski_loop(xs, ys, p, i - 1), FPowf(FAbs(FSub(E(xs[i]), E(ys[i]))), p))

\* minkowski returning the accumulated sum without the final root
minkowski_mut(xs, ys, p) ==
    IF Len(xs) # Len(ys) THEN Panic(0, 0)
    ELSE Ok(minkowski_loop(xs, ys, p, Len(xs)), 2 * Len(xs), 1)

minkowski(xs, ys, p) ==
    IF Len(xs) # Len(ys) THEN Panic(0, 0)
    ELSE Ok(FPowf(minkowski_loop(xs, ys, p, Len(xs)), FDiv(One, p)), 2 * Len(xs), 1)

\* utils::ones_vector, arr1(&vec![T::one(); len]), Array1::ones(len)
ones_vector(n) == [i \in 1..n |-> One]

\* the accumulated sum of (x[i] - y[i])^2 / sigma[i] over the first i entries
RECURSIVE standardised_euclidean_loop(_, _, _, _)
standardised_euclidean_loop(xs, ys, sigma, i) ==
    IF i = 0 THEN Zero
    ELSE LET diff == FSub(E(xs[i]), E(ys[i]))
         IN FAdd(standardised_euclidean_loop(xs, ys, sigma, i - 1),
                 FDiv(FMul(diff, diff), sigma[i]))

\* sigma is read by index only: a shorter sigma panics at entry sigma.len(),
\* a longer one is used up to entry len
standardised_euclidean(xs, ys, sopt) ==
    LET len == Len(xs)
        sigma_view == IF sopt.some THEN sopt.val ELSE ones_vector(len)
    IN IF Len(xs) # Len(ys) THEN Panic(0, 0)
       ELSE IF Len(sigma_view) < len
       THEN Panic(4 * Len(sigma_view) + 4, Len(sigma_view))
       ELSE Ok(FSqrt(standardised_euclidean_loop(xs, ys, sigma_view, len)), 4 * len, len)

(***************************************************************************)
(* Gradient variants: the outcome of a successful call is the pair of the  *)
(* distance v and the gradient grad, a vector of scalars.                  *)
(***************************************************************************)
OkGrad(v, grad) == [st |-> "ok", v |-> v, grad |-> grad]

\* Array1::zeros(n), vec![T::zero(); n]
Zeros(n) == [i \in 1..n |-> Zero]

\* T::from(1e-6)
Epsilon == Rat(1, 1000000)

\* the running maximum and its index (counted from 1) after i iterations; the
\* index starts at the first entry and moves only on a strictly larger value
RECURSIVE chebyshev_grad_loop(_, _, _)
chebyshev_grad_loop(xs, ys, i) ==
    IF i = 0 THEN [result |-> Zero, max_i |-> 1]
    ELSE LET c == chebyshev_grad_loop(xs, ys, i - 1)
             v == FAbs(FSub(E(xs[i]), E(ys[i])))
         IN IF FGt(v, c.result) THEN [result |-> v, max_i |-> i] ELSE c

\* chebyshev_grad moving the index on a tie as well (last maximum)
chebyshev_grad_mut(xs, ys) ==
    IF Len(xs) # Len(ys) THEN Panic(0, 0)
    ELSE LET c == chebyshev_grad_loop(xs, ys, Len(xs))
             last == IF FIsZero(c.result) THEN 1
                     ELSE CHOOSE i \in 1..Len(xs) :
                            /\ FAbs(FSub(E(xs[i]), E(ys[i]))) = c.result
                            /\ \A j \in (i + 1)..Len(xs) :
                                 FAbs(FSub(E(xs[j]), E(ys[j]))) # c.result
             grad == [i \in 1..Len(xs) |->
                        IF ~FIsZero(c.result) /\ i = last
                        THEN FSignum(FSub(E(xs[last]), E(ys[last])))
                        ELSE Zero]
         IN OkGrad(c.result, grad)

chebyshev_grad(xs, ys) ==
    IF Len(xs) # Len(ys) THEN Panic(0, 0)
    ELSE LET c == chebyshev_grad_loop(xs, ys, Len(xs))
             grad == [i \in 1..Len(xs) |->
                        IF ~FIsZero(c.result) /\ i = c.max_i
                        THEN FSignum(FSub(E(xs[c.max_i]), E(ys[c.max_i])))
                        ELSE Zero]
         IN OkGrad(c.result, grad)

RECURSIVE manhattan_grad_loop(_, _, _)
manhattan_grad_loop(xs, ys, i) ==
    IF i = 0 THEN Zero
    ELSE FAdd(manhattan_grad_loop(xs, ys, i - 1), FAbs(FSub(E(xs[i]), E(ys[i]))))

manhattan_grad(xs, ys) ==
    IF Len(xs) # Len(ys) THEN Panic(0, 0)
    ELSE OkGrad(manhattan_grad_loop(xs, ys, Len(xs)),
                [i \in 1..Len(xs) |-> FSignum(FSub(E(xs[i]), E(ys[i])))])

RECURSIVE canberra_grad_loop(_, _, _)
canberra_grad_loop(xs, ys, i) ==
    IF i = 0 THEN Zero
    ELSE LET denominator == FAdd(FAbs(E(xs[i])), FAbs(E(ys[i])))
         IN IF FGt(denominator, Zero)
            THEN FAdd(canberra_grad_loop(xs, ys, i - 1),
                      FDiv(FAbs(FSub(E(xs[i]), E(ys[i]))), denominator))
            ELSE canberra_grad_loop(xs, ys, i - 1)

\* grad[i] as the loop body leaves it: written only under denominator > 0
canberra_grad_entry(xi, yi) ==
    LET denominator == FAdd(FAbs(xi), FAbs(yi))
        sign_diff == FSignum(FSub(xi, yi))
        sign_x == FSignum(xi)
    IN IF FGt(denominator, Zero)
       THEN FSub(FDiv(sign_diff, denominator),
                 FDiv(FMul(FAbs(FSub(xi, yi)), sign_x), FPowf(denominator, R(2))))
       ELSE Zero

canberra_grad(xs, ys) ==
    IF Len(xs) # Len(ys) THEN Panic(0, 0)
    ELSE OkGrad(canberra_grad_loop(xs, ys, Len(xs)),
                [i \in 1..Len(xs) |-> canberra_grad_entry(E(xs[i]), E(ys[i]))])

RECURSIVE bray_curtis_grad_loop(_, _, _)
bray_curtis_grad_loop(xs, ys, i) ==
    IF i = 0 THEN [numerator |-> Zero, denominator |-> Zero]
    ELSE LET c == bray_curtis_grad_loop(xs, ys, i - 1)
         IN [numerator |-> FAdd(c.numerator, FAbs(FSub(E(xs[i]), E(ys[i])))),
             denominator |-> FAdd(c.denominator, FAbs(FAdd(E(xs[i]), E(ys[i]))))]

bray_curtis_grad(xs, ys) ==
    IF Len(ys) < Len(xs) THEN IndexPanic(4, ys)
    ELSE LET c == bray_curtis_grad_loop(xs, ys, Len(xs))
         IN IF FGt(c.denominator, Zero)
            THEN LET dist == FDiv(c.numerator, c.denominator)
                 IN OkGrad(dist, [i \in 1..Len(xs) |->
                                    FDiv(FSub(FSignum(FSub(E(xs[i]), E(ys[i]))), dist),
                                         c.denominator)])
            ELSE OkGrad(Zero, Zeros(Len(xs)))

RECURSIVE cosine_grad_loop(_, _, _)
cosine_grad_loop(xs, ys, i) ==
    IF i = 0 THEN [result |-> Zero, norm_x |-> Zero, norm_y |-> Zero]
    ELSE LET c == cosine_grad_loop(xs, ys, i - 1)
         IN [result |-> FAdd(c.result, FMul(E(xs[i]), E(ys[i]))),
             norm_x |-> FAdd(c.norm_x, FMul(E(xs[i]), E(xs[i]))),
             norm_y |-> FAdd(c.norm_y, FMul(E(ys[i]), E(ys[i])))]

cosine_grad(xs, ys) ==
    IF Len(ys) < Len(xs) THEN IndexPanic(6, ys)
    ELSE LET c == cosine_grad_loop(xs, ys, Len(xs))
         IN IF FIsZero(c.norm_x) /\ FIsZero(c.norm_y) THEN OkGrad(Zero, Zeros(Len(xs)))
            ELSE IF FIsZero(c.norm_x) \/ FIsZero(c.norm_y) THEN OkGrad(One, Zeros(Len(xs)))
            ELSE OkGrad(FSub(One, FDiv(c.result, FMul(FSqrt(c.norm_x), FSqrt(c.norm_y)))),
                        [i \in 1..Len(xs) |->
                           FDiv(FNeg(FSub(FMul(E(xs[i]), c.result), FMul(E(ys[i]), c.norm_x))),
                                FMul(FPowf(c.norm_x, Rat(3, 2)), FSqrt(c.norm_y)))])

RECURSIVE hellinger_grad_loop(_, _, _)
hellinger_grad_loop(xs, ys, i) ==
    IF i = 0 THEN [result |-> Zero, l1_norm_x |-> Zero, l1_norm_y |-> Zero]
    ELSE LET c == hellinger_grad_loop(xs, ys, i - 1)
         IN [result |-> FAdd(c.result, FSqrt(FMul(E(xs[i]), E(ys[i])))),
             l1_norm_x |-> FAdd(c.l1_norm_x, E(xs[i])),
             l1_norm_y |-> FAdd(c.l1_norm_y, E(ys[i]))]

\* hellinger_grad keeping the unnormalised gradient terms in the one-zero case
hellinger_grad_mut(xs, ys) ==
    IF Len(ys) < Len(xs) THEN IndexPanic(4, ys)
    ELSE LET c == hellinger_grad_loop(xs, ys, Len(xs))
             grad_term == [i \in 1..Len(xs) |-> FSqrt(FMul(E(xs[i]), E(ys[i])))]
         IN IF FIsZero(c.l1_norm_x) /\ FIsZero(c.l1_norm_y) THEN OkGrad(Zero, Zeros(Len(xs)))
            ELSE IF FIsZero(c.l1_norm_x) \/ FIsZero(c.l1_norm_y)
            THEN OkGrad(One, [i \in 1..Len(xs) |-> E(ys[i])])
            ELSE OkGrad(FSqrt(FSub(One, FDiv(c.result, FSqrt(FMul(c.l1_norm_x, c.l1_norm_y))))),
                        grad_term)

hellinger_grad(xs, ys) ==
    IF Len(ys) < Len(xs) THEN IndexPanic(4, ys)
    ELSE LET c == hellinger_grad_loop(xs, ys, Len(xs))
             grad_term == [i \in 1..Len(xs) |-> FSqrt(FMul(E(xs[i]), E(ys[i])))]
         IN IF FIsZero(c.l1_norm_x) /\ FIsZero(c.l1_norm_y) THEN OkGrad(Zero, Zeros(Len(xs)))
            ELSE IF FIsZero(c.l1_norm_x) \/ FIsZero(c.l1_norm_y) THEN OkGrad(One, Zeros(Len(xs)))
            ELSE LET dist_denom == FSqrt(FMul(c.l1_norm_x, c.l1_norm_y))
                     dist == FSqrt(FSub(One, FDiv(c.result, dist_denom)))
                     grad_denom == FMul(R(2), dist)
                     grad_numer_const == FDiv(FMul(c.l1_norm_y, c.result),
                                              FMul(R(2), FPowf(dist_denom, R(3))))
                 IN OkGrad(dist,
                           [i \in 1..Len(xs) |->
                              FDiv(FSub(grad_numer_const,
                                        FMul(FDiv(E(ys[i]), grad_term[i]), dist_denom)),
                                   grad_denom)])

\* T::from(PI / 2.0)
HalfPi == Sym("pi_2", <<>>)

haversine_grad(xs, ys) ==
    IF Len(xs) # 2 \/ Len(ys) # 2 THEN Panic(0, 0)
    ELSE LET sin_lat == FMul(FSin(FSub(E(xs[1]), E(ys[1]))), Half)
             cos_lat == FMul(FCos(FSub(E(xs[1]), E(ys[1]))), Half)
             sin_long == FMul(FSin(FSub(E(xs[2]), E(ys[2]))), Half)
             cos_long == FMul(FCos(FSub(E(xs[2]), E(ys[2]))), Half)
             cx == FCos(FAdd(E(xs[1]), HalfPi))
             cy == FCos(FAdd(E(ys[1]), HalfPi))
             a_0 == FMul(FMul(cx, cy), FPowf(sin_long, R(2)))
             a_1 == FAdd(a_0, FPowf(sin_lat, R(2)))
             d == FMul(R(2), FAsin(FSqrt(FAbs(a_1))))
             denom == FMul(FSqrt(FAbs(a_1)), FSqrt(FAbs(FSub(a_1, One))))
             grad_x == FDiv(FSub(FMul(sin_lat, cos_lat),
                                 FMul(FMul(FSin(FAdd(E(xs[1]), HalfPi)), cy),
                                      FPowf(sin_long, R(2)))),
                            FAdd(denom, Epsilon))
             grad_y == FDiv(FMul(FMul(FMul(cx, cy), sin_long), cos_long),
                            FAdd(denom, Epsilon))
         IN OkGrad(d, <<grad_x, grad_y>>)

RECURSIVE standardised_euclidean_grad_loop(_, _, _, _)
standardised_euclidean_grad_loop(xs, ys, sigma, i) ==
    IF i = 0 THEN Zero
    ELSE LET diff == FSub(E(xs[i]), E(ys[i]))
             s == sigma[i]
         IN FAdd(standardised_euclidean_grad_loop(xs, ys, sigma, i - 1),
                 FDiv(FMul(diff, diff), s))

standardised_euclidean_grad(xs, ys, sopt) ==
    LET sigma == IF sopt.some THEN sopt.val ELSE ones_vector(Len(xs))
    IN IF Len(xs) # Len(ys) THEN Panic(0, 0)
       ELSE IF Len(xs) # Len(sigma) THEN Panic(0, 0)
       ELSE LET d == FSqrt(standardised_euclidean_grad_loop(xs, ys, sigma, Len(xs)))
            IN OkGrad(d, [i \in 1..Len(xs) |->
                            FDiv(FSub(E(xs[i]), E(ys[i])), FAdd(Epsilon, FMul(d, sigma[i])))])

RECURSIVE hyperboloid_b(_, _, _, _)
\* `for i in 0..x.len() { b = b - x[i] * y[i] }` from the start value b
hyperboloid_b(xs, ys, b, i) ==
    IF i = 0 THEN b
    ELSE FSub(hyperboloid_b(xs, ys, b, i - 1), FMul(E(xs[i]), E(ys[i])))

\* `b <= T::one()` for b = s*t - x.y with s = sqrt(A), t = sqrt(C): read off
\* the value when it is rational, and otherwise decided exactly, as
\* sqrt(A*C) <= 1 + x.y, that is 1 + x.y >= 0 and A*C <= (1 + x.y)^2
hyperboloid_le_one(xs, ys, b, A, C) ==
    IF IsRat(b) THEN ~FGt(b, One)
    ELSE LET rhs == FSub(One, hyperboloid_b(xs, ys, Zero, Len(xs)))
         IN ~FGt(Zero, rhs) /\ ~FGt(FMul(A, C), FMul(rhs, rhs))

\* `T::one() + T::from(1e-8).unwrap()`: 1e-8 is below half the spacing of the
\* f32 values at 1 (2^-24, about 5.96e-8), so the f32 sum rounds to 1; the f64
\* sum is above 1
hyperboloid_clamp(prec) ==
    IF prec = "f32" THEN One ELSE FAdd(One, Rat(1, 100000000))

hyperboloid_grad(xs, ys, prec) ==
    IF Len(ys) < Len(xs) THEN IndexPanic(2, ys)
    ELSE LET A == FAdd(One, SumSquares(xs, Len(xs)))
             C == FAdd(One, SumSquares(ys, Len(ys)))
             s == FSqrt(A)
             t == FSqrt(C)
             b0 == hyperboloid_b(xs, ys, FMul(s, t), Len(xs))
             b == IF hyperboloid_le_one(xs, ys, b0, A, C)
                  THEN hyperboloid_clamp(prec) ELSE b0
             grad_coeff == FDiv(One, FMul(FSqrt(FSub(b, One)), FSqrt(FAdd(b, One))))
         IN [st |-> "ok", v |-> FAcosh(b), b |-> b,
             grad |-> [i \in 1..Len(xs) |->
                         FMul(grad_coeff,
                              FSub(FDiv(FMul(E(xs[i]), t), s), E(ys[i])))]]

(***************************************************************************)
(* The log-gamma / log-beta approximations and the Dirichlet likelihood.   *)
(***************************************************************************)
\* T::from(2.0) * T::from(PI)
TwoPi == Sym("two_pi", <<>>)
\* T::ln(T::from(2.0))
Ln2 == FLn(R(2))

\* outside the finite positive values the IEEE rules give NaN: ln of a
\* negative value, 0 * ln(0), Inf * Inf - Inf
approx_log_gamma(v) ==
    IF IsRat(v) /\ Num(v) = Den(v) THEN Zero
    ELSE IF ~IsRat(v) \/ Num(v) <= 0 THEN NaN
    ELSE FAdd(FAdd(FSub(FMul(v, FLn(v)), v),
                   FMul(Half, FLn(FDiv(TwoPi, v)))),
              FDiv(One, FMul(v, R(12))))

\* outside the finite positive values the IEEE rules give: NaN for a negative
\* value and for -Inf (ln of a negative value; Inf + ln(-0)), +Inf at 0
\* (ln(Inf) + 0.125/0), -Inf at +Inf (ln(2) * -Inf + ln(0))
log_single_beta(v) ==
    IF IsNaN(v) \/ v.t = "ninf" \/ (IsRat(v) /\ Num(v) < 0) THEN NaN
    ELSE IF IsRat(v) /\ Num(v) = 0 THEN PosInf
    ELSE IF v.t = "inf" THEN NegInf
    ELSE FAdd(FAdd(FMul(Ln2, FAdd(FMul(FNeg(R(2)), v), Half)),
              FMul(Half, FLn(FDiv(TwoPi, v)))),
         FDiv(Rat(1, 8), v))

\* the result of a log_beta call: the value, the branch taken and the number
\* of iterations of the series loop
OkBeta(v, branch, iters) == [st |-> "ok", v |-> v, branch |-> branch, iters |-> iters]

RECURSIVE log_beta_loop(_, _, _, _, _)
\* `while i < a { value = value + (i.ln() - (b + i).ln()); i = i + 1 }`
log_beta_loop(a, b, i, value, iters) ==
    IF FGt(a, i)
    THEN log_beta_loop(a, b, FAdd(i, One),
                       FAdd(value, FSub(FLn(i), FLn(FAdd(b, i)))), iters + 1)
    ELSE OkBeta(value, "series", iters)

\* the series branch taken below 50 instead of 5
log_beta_mut(xv, yv) ==
    LET a == FMin(xv, yv)
        b == FMax(xv, yv)
    IN IF FGt(R(50), b)
       THEN log_beta_loop(a, b, One, FNeg(FLn(b)), 0)
       ELSE OkBeta(FSub(FAdd(approx_log_gamma(xv), approx_log_gamma(yv)),
                        approx_log_gamma(FAdd(xv, yv))), "asymptotic", 0)

\* log_beta of log_beta.rs
log_beta(xv, yv) ==
    LET a == FMin(xv, yv)
        b == FMax(xv, yv)
    IN IF FGt(R(5), b)
       THEN log_beta_loop(a, b, One, FNeg(FLn(b)), 0)
       ELSE OkBeta(FSub(FAdd(approx_log_gamma(xv), approx_log_gamma(yv)),
                        approx_log_gamma(FAdd(xv, yv))), "asymptotic", 0)

\* ToPrimitive::to_i64 of a float: truncation toward zero, None for NaN and
\* for a value outside the i64 range (of the values of the model, an infinity)
to_i64(v) ==
    IF IsRat(v)
    THEN Some((IF Num(v) < 0 THEN -1 ELSE 1) * (Abs(Num(v)) \div Den(v)))
    ELSE NoneOpt

RECURSIVE dirichlet_log_beta_loop(_, _, _, _, _)
\* `for i in 1..hi { value = value + T::ln(ii) - T::ln(b + ii) }`
dirichlet_log_beta_loop(b, i, hi, value, iters) ==
    IF i < hi
    THEN dirichlet_log_beta_loop(b, i + 1, hi,
                                 FSub(FAdd(value, FLn(R(i))), FLn(FAdd(b, R(i)))),
                                 iters + 1)
    ELSE OkBeta(value, "series", iters)

\* the private log_beta of ll_dirichlet.rs with the series branch taken
\* below 50 instead of 5
dirichlet_log_beta_mut(xv, yv) ==
    LET a == FMin(xv, yv)
        b == FMax(xv, yv)
    IN IF FGt(R(50), b)
       THEN IF to_i64(a).some
            THEN dirichlet_log_beta_loop(b, 1, to_i64(a).val, FNeg(FLn(b)), 0)
            ELSE Panic(0, 0)
       ELSE OkBeta(FSub(FAdd(log_single_beta(xv), log_single_beta(yv)),
                        log_single_beta(FAdd(xv, yv))), "asymptotic", 0)

\* the private log_beta of ll_dirichlet.rs; `a.to_i64().unwrap()` panics on None
dirichlet_log_beta(xv, yv) ==
    LET a == FMin(xv, yv)
        b == FMax(xv, yv)
    IN IF FGt(R(5), b)
       THEN IF to_i64(a).some
            THEN dirichlet_log_beta_loop(b, 1, to_i64(a).val, FNeg(FLn(b)), 0)
            ELSE Panic(0, 0)
       ELSE OkBeta(FSub(FAdd(log_single_beta(xv), log_single_beta(yv)),
                        log_single_beta(FAdd(xv, yv))), "asymptotic", 0)

RECURSIVE SumCounts(_, _)
\* `data.iter().copied().sum()`
SumCounts(data, i) == IF i = 0 THEN Zero ELSE FAdd(SumCounts(data, i - 1), data[i])

\* T::from(0.9)
PositiveThreshold == Rat(9, 10)

RECURSIVE ll_dirichlet_loop(_, _, _)
\* the accumulators after the first i coordinates; hits records, for each
\* coordinate, which of the three accumulators it was added to; ok is false
\* once a log_beta call has panicked
ll_dirichlet_loop(data1, data2, i) ==
    IF i = 0
    THEN [log_b |-> Zero, self_denom1 |-> Zero, self_denom2 |-> Zero,
          hits |-> <<>>, ok |-> TRUE]
    ELSE LET c == ll_dirichlet_loop(data1, data2, i - 1)
             lb == dirichlet_log_beta(data1[i], data2[i])
             pos1 == FGt(data1[i], PositiveThreshold)
             pos2 == FGt(data2[i], PositiveThreshold)
         IN IF FGt(FMul(data1[i], data2[i]), PositiveThreshold)
            THEN [log_b |-> FAdd(c.log_b, lb.v),
                  self_denom1 |-> FAdd(c.self_denom1, log_single_beta(data1[i])),
                  self_denom2 |-> FAdd(c.self_denom2, log_single_beta(data2[i])),
                  hits |-> Append(c.hits, [log_b |-> TRUE, self_denom1 |-> TRUE,
                                           self_denom2 |-> TRUE]),
                  ok |-> c.ok /\ lb.st = "ok"]
            ELSE [log_b |-> c.log_b,
                  self_denom1 |-> IF pos1 THEN FAdd(c.self_denom1, log_single_beta(data1[i]))
                                  ELSE c.self_denom1,
                  self_denom2 |-> IF pos2 THEN FAdd(c.self_denom2, log_single_beta(data2[i]))
                                  ELSE c.self_denom2,
                  hits |-> Append(c.hits, [log_b |-> FALSE, self_denom1 |-> pos1,
                                           self_denom2 |-> pos2]),
                  ok |-> c.ok]

ll_dirichlet(data1, data2) ==
    IF Len(data2) < Len(data1) THEN IndexPanic(2, data2)
    ELSE LET n1 == SumCounts(data1, Len(data1))
             n2 == SumCounts(data2, Len(data2))
             c == ll_dirichlet_loop(data1, data2, Len(data1))
             b12 == dirichlet_log_beta(n1, n2)
             b21 == dirichlet_log_beta(n2, n1)
         IN IF ~c.ok \/ b12.st # "ok" \/ b21.st # "ok" THEN Panic(2 * Len(data1), 0)
            ELSE [st |-> "ok",
                  v |-> FSqrt(FAdd(
                           FMul(FDiv(One, n2),
                                FSub(FSub(c.log_b, b12.v),
                                     FSub(c.self_denom2, log_single_beta(n2)))),
                           FMul(FDiv(One, n1),
                                FSub(FSub(c.log_b, b21.v),
                                     FSub(c.self_denom1, log_single_beta(n1)))))),
                  hits |-> c.hits, iters |-> Len(data1)]

(***************************************************************************)
(* One call of a binary-set metric (or of hamming) on arbitrary inputs.    *)
(***************************************************************************)
\* the parameters of a call besides x and y: the optional weights, the optional
\* inverse covariance matrix, the exponent (0 where the metric takes none) and
\* the optional standard deviations; prec is the scalar type T of the call
\* where the model tells f32 from f64; input tells what x and y hold: vectors
\* of whole numbers, two scalars, or slices of counts
NoArg ==
    [w |-> NoneOpt, vinv |-> NoneOpt, p |-> Zero, sigma |-> NoneOpt, prec |-> "any",
     input |-> "vectors"]

InitBin == x \in BinVecs /\ y \in BinVecs /\ arg = NoArg /\ fn = "none" /\ out = None

CallJaccard ==
    /\ fn = "none"
    /\ fn' = "jaccard"
    /\ out' = jaccard(x, y)
    /\ UNCHANGED <<x, y, arg>>

CallDice ==
    /\ fn = "none"
    /\ fn' = "dice"
    /\ out' = dice(x, y)
    /\ UNCHANGED <<x, y, arg>>

CallKulsinski ==
    /\ fn = "none"
    /\ fn' = "kulsinski"
    /\ out' = kulsinski(x, y)
    /\ UNCHANGED <<x, y, arg>>

CallSokalSneath ==
    /\ fn = "none"
    /\ fn' = "sokal_sneath"
    /\ out' = sokal_sneath(x, y)
    /\ UNCHANGED <<x, y, arg>>

CallYule ==
    /\ fn = "none"
    /\ fn' = "yule"
    /\ out' = yule(x, y)
    /\ UNCHANGED <<x, y, arg>>

CallRussellRao ==
    /\ fn = "none"
    /\ fn' = "russell_rao"
    /\ out' = russell_rao(x, y)
    /\ UNCHANGED <<x, y, arg>>

CallRogersTanimoto ==
    /\ fn = "none"
    /\ fn' = "rogers_tanimoto"
    /\ out' = rogers_tanimoto(x, y)
    /\ UNCHANGED <<x, y, arg>>

CallSokalMichener ==
    /\ fn = "none"
    /\ fn' = "sokal_michener"
    /\ out' = sokal_michener(x, y)
    /\ UNCHANGED <<x, y, arg>>

CallMatching ==
    /\ fn = "none"
    /\ fn' = "matching"
    /\ out' = matching(x, y)
    /\ UNCHANGED <<x, y, arg>>

CallHamming ==
    /\ fn = "none"
    /\ fn' = "hamming"
    /\ out' = hamming(x, y)
    /\ UNCHANGED <<x, y, arg>>


NextBin ==
    \/ CallJaccard
    \/ CallDice
    \/ CallKulsinski
    \/ CallSokalSneath
    \/ CallYule
    \/ CallRussellRao
    \/ CallRogersTanimoto
    \/ CallSokalMichener
    \/ CallMatching
    \/ CallHamming

SpecBin == InitBin /\ [][NextBin]_vars

(***************************************************************************)
(* One call of an elementary metric on arbitrary inputs.                   *)
(***************************************************************************)
InitElem == x \in ElemVecs /\ y \in ElemVecs /\ arg = NoArg /\ fn = "none" /\ out = None

\* weight vectors of length n: all ones, all halves, and a leading zero
Weights(n) ==
    {[i \in 1..n |-> One], [i \in 1..n |-> Half], [i \in 1..n |-> IF i = 1 THEN Zero ELSE One]}

\* n x n matrices: the identity, a symmetric tridiagonal one and a triangular one
Matrices(n) ==
    {identity_matrix(n),
     [i \in 1..n |-> [j \in 1..n |-> IF i = j THEN One ELSE IF Abs(i - j) = 1 THEN Half ELSE Zero]],
     [i \in 1..n |-> [j \in 1..n |-> IF i <= j THEN One ELSE Zero]]}

Exponents == {R(1), R(2), R(3)}

\* exponents of minkowski: the finite ones and +infinity
MinkowskiExponents == Exponents \cup {PosInf}

\* sigma vectors for inputs of length n: of length n all ones, all twos, all
\* zeros, ones with a zero first or last, ones with a negative entry first;
\* one entry shorter; one entry longer, all ones or ending with a zero
Sigmas(n) ==
    {ones_vector(n),
     [i \in 1..n |-> R(2)],
     Zeros(n),
     [i \in 1..n |-> IF i = 1 THEN Zero ELSE One],
     [i \in 1..n |-> IF i = n THEN Zero ELSE One],
     [i \in 1..n |-> IF i = 1 THEN R(-1) ELSE One],
     ones_vector(n + 1),
     [i \in 1..(n + 1) |-> IF i = n + 1 THEN Zero ELSE One]}
    \cup (IF n > 0 THEN {ones_vector(n - 1)} ELSE {})

CallManhattan ==
    /\ fn = "none"
    /\ fn' = "manhattan"
    /\ out' = manhattan(x, y)
    /\ UNCHANGED <<x, y, arg>>

CallCanberra ==
    /\ fn = "none"
    /\ fn' = "canberra"
    /\ out' = canberra(x, y)
    /\ UNCHANGED <<x, y, arg>>

CallEuclidean ==
    /\ fn = "none"
    /\ fn' = "euclidean"
    /\ out' = euclidean(x, y)
    /\ UNCHANGED <<x, y, arg>>

CallChebyshev ==
    /\ fn = "none"
    /\ fn' = "chebyshev"
    /\ out' = chebyshev(x, y)
    /\ UNCHANGED <<x, y, arg>>

CallHaversine ==
    /\ fn = "none"
    /\ fn' = "haversine"
    /\ out' = haversine(x, y)
    /\ UNCHANGED <<x, y, arg>>

CallBrayCurtis ==
    /\ fn = "none"
    /\ fn' = "bray_curtis"
    /\ out' = bray_curtis(x, y)
    /\ UNCHANGED <<x, y, arg>>

CallCosine ==
    /\ fn = "none"
    /\ fn' = "cosine"
    /\ out' = cosine(x, y)
    /\ UNCHANGED <<x, y, arg>>

CallCorrelation ==
    /\ fn = "none"
    /\ fn' = "correlation"
    /\ out' = correlation(x, y)
    /\ UNCHANGED <<x, y, arg>>

CallHellinger ==
    /\ fn = "none"
    /\ fn' = "hellinger"
    /\ out' = hellinger(x, y)
    /\ UNCHANGED <<x, y, arg>>

CallPoincare ==
    /\ fn = "none"
    /\ fn' = "poincare"
    /\ out' = poincare(x, y)
    /\ UNCHANGED <<x, y, arg>>

CallMahalanobis ==
    /\ fn = "none"
    /\ \E vinv \in {NoneOpt} \cup {Some(m) : m \in Matrices(Len(x))} :
         /\ arg' = [arg EXCEPT !.vinv = vinv]
         /\ out' = mahalanobis(x, y, vinv)
    /\ fn' = "mahalanobis"
    /\ UNCHANGED <<x, y>>

CallWeightedMinkowski ==
    /\ fn = "none"
    /\ \E w \in {NoneOpt} \cup {Some(v) : v \in Weights(Len(x))}, p \in Exponents :
         /\ arg' = [arg EXCEPT !.w = w, !.p = p]
         /\ out' = weighted_minkowski(x, y, w, p)
    /\ fn' = "weighted_minkowski"
    /\ UNCHANGED <<x, y>>

CallMinkowski ==
    /\ fn = "none"
    /\ \E p \in MinkowskiExponents :
         /\ arg' = [arg EXCEPT !.p = p]
         /\ out' = minkowski(x, y, p)
    /\ fn' = "minkowski"
    /\ UNCHANGED <<x, y>>

CallStandardisedEuclidean ==
    /\ fn = "none"
    /\ \E sigma \in {NoneOpt} \cup {Some(v) : v \in Sigmas(Len(x))} :
         /\ arg' = [arg EXCEPT !.sigma = sigma]
         /\ out' = standardised_euclidean(x, y, sigma)
    /\ fn' = "standardised_euclidean"
    /\ UNCHANGED <<x, y>>

NextElem ==
    \/ CallManhattan
    \/ CallCanberra
    \/ CallEuclidean
    \/ CallChebyshev
    \/ CallHaversine
    \/ CallBrayCurtis
    \/ CallCosine
    \/ CallCorrelation
    \/ CallHellinger
    \/ CallPoincare
    \/ CallMahalanobis
    \/ CallWeightedMinkowski
    \/ CallMinkowski
    \/ CallStandardisedEuclidean

SpecElem == InitElem /\ [][NextElem]_vars

(***************************************************************************)
(* One call of any metric, binary-set metrics included, on the inputs of   *)
(* the elementary metrics.                                                 *)
(***************************************************************************)
NextAll == NextBin \/ NextElem

SpecAll == InitElem /\ [][NextAll]_vars

(***************************************************************************)
(* One call of a gradient variant (or of standardised_euclidean, whose     *)
(* contract its gradient variant shares) on arbitrary inputs.              *)
(***************************************************************************)
CallChebyshevGrad ==
    /\ fn = "none"
    /\ fn' = "chebyshev_grad"
    /\ out' = chebyshev_grad(x, y)
    /\ UNCHANGED <<x, y, arg>>

CallManhattanGrad ==
    /\ fn = "none"
    /\ fn' = "manhattan_grad"
    /\ out' = manhattan_grad(x, y)
    /\ UNCHANGED <<x, y, arg>>

CallCanberraGrad ==
    /\ fn = "none"
    /\ fn' = "canberra_grad"
    /\ out' = canberra_grad(x, y)
    /\ UNCHANGED <<x, y, arg>>

CallBrayCurtisGrad ==
    /\ fn = "none"
    /\ fn' = "bray_curtis_grad"
    /\ out' = bray_curtis_grad(x, y)
    /\ UNCHANGED <<x, y, arg>>

CallCosineGrad ==
    /\ fn = "none"
    /\ fn' = "cosine_grad"
    /\ out' = cosine_grad(x, y)
    /\ UNCHANGED <<x, y, arg>>

CallHellingerGrad ==
    /\ fn = "none"
    /\ fn' = "hellinger_grad"
    /\ out' = hellinger_grad(x, y)
    /\ UNCHANGED <<x, y, arg>>

CallHaversineGrad ==
    /\ fn = "none"
    /\ fn' = "haversine_grad"
    /\ out' = haversine_grad(x, y)
    /\ UNCHANGED <<x, y, arg>>

CallStandardisedEuclideanGrad ==
    /\ fn = "none"
    /\ \E sigma \in {NoneOpt} \cup {Some(v) : v \in Sigmas(Len(x))} :
         /\ arg' = [arg EXCEPT !.sigma = sigma]
         /\ out' = standardised_euclidean_grad(x, y, sigma)
    /\ fn' = "standardised_euclidean_grad"
    /\ UNCHANGED <<x, y>>

CallHyperboloidGrad ==
    /\ fn = "none"
    /\ \E prec \in {"f32", "f64"} :
         /\ arg' = [arg EXCEPT !.prec = prec]
         /\ out' = hyperboloid_grad(x, y, prec)
    /\ fn' = "hyperboloid_grad"
    /\ UNCHANGED <<x, y>>

NextGrad ==
    \/ CallChebyshevGrad
    \/ CallManhattanGrad
    \/ CallCanberraGrad
    \/ CallBrayCurtisGrad
    \/ CallCosineGrad
    \/ CallHellingerGrad
    \/ CallHaversineGrad
    \/ CallStandardisedEuclideanGrad
    \/ CallStandardisedEuclidean
    \/ CallHyperboloidGrad

SpecGrad == InitElem /\ [][NextGrad]_vars

(***************************************************************************)
(* One call of log_beta, public or private, on two scalars.                *)
(***************************************************************************)
BetaArgs ==
    {NaN, NegInf, R(-1), Zero, Half, One, R(2), Rat(5, 2), R(3), R(4), Rat(9, 2),
     R(5), R(10)}

InitBeta ==
    /\ x \in BetaArgs /\ y \in BetaArgs
    /\ arg = [NoArg EXCEPT !.input = "scalars"]
    /\ fn = "none" /\ out = None

CallLogBeta ==
    /\ fn = "none"
    /\ fn' = "log_beta"
    /\ out' = log_beta(x, y)
    /\ UNCHANGED <<x, y, arg>>

CallDirichletLogBeta ==
    /\ fn = "none"
    /\ fn' = "dirichlet_log_beta"
    /\ out' = dirichlet_log_beta(x, y)
    /\ UNCHANGED <<x, y, arg>>

NextBeta == CallLogBeta \/ CallDirichletLogBeta

SpecBeta == InitBeta /\ [][NextBeta]_vars

(***************************************************************************)
(* One call of ll_dirichlet on two slices of counts.                       *)
(***************************************************************************)
CountVals == {Zero, Half, One, R(2), R(5)}
CountVecs == SeqsUpTo(CountVals, MaxCount)

InitDirichlet ==
    /\ x \in CountVecs /\ y \in CountVecs
    /\ arg = [NoArg EXCEPT !.input = "counts"]
    /\ fn = "none" /\ out = None

CallLlDirichlet ==
    /\ fn = "none"
    /\ fn' = "ll_dirichlet"
    /\ out' = ll_dirichlet(x, y)
    /\ UNCHANGED <<x, y, arg>>

NextDirichlet == CallLlDirichlet

SpecDirichlet == InitDirichlet /\ [][NextDirichlet]_vars

(***************************************************************************)
(* One call of any function of the library on inputs of its kind.          *)
(***************************************************************************)
InitLib == InitElem \/ InitBeta \/ InitDirichlet

NextLib ==
    \/ arg.input = "vectors" /\ (NextAll \/ NextGrad)
    \/ arg.input = "scalars" /\ NextBeta
    \/ arg.input = "counts" /\ NextDirichlet

SpecLib == InitLib /\ [][NextLib]_vars

(***************************************************************************)
(* Contingency counts of two equal-length vectors, stated without a loop.  *)
(***************************************************************************)
Idx(xs) == 1..Len(xs)
TT(xs, ys) == Cardinality({i \in Idx(xs) : xs[i] # 0 /\ ys[i] # 0})
TF(xs, ys) == Cardinality({i \in Idx(xs) : xs[i] # 0 /\ ys[i] = 0})
FT(xs, ys) == Cardinality({i \in Idx(xs) : xs[i] = 0 /\ ys[i] # 0})
FF(xs, ys) == Cardinality({i \in Idx(xs) : xs[i] = 0 /\ ys[i] = 0})
NE(xs, ys) == TF(xs, ys) + FT(xs, ys)
NonZero(vs) == Cardinality({i \in Idx(vs) : vs[i] # 0})

Called(name) == fn = name
EqualLength == Len(x) = Len(y)

RatioOrNaN(n, d) == IF d = 0 THEN (IF n = 0 THEN NaN ELSE PosInf) ELSE Rat(n, d)

\* C4: on every pair of equal-length vectors rogers_tanimoto and
\* sokal_michener both return 2*ne/(N+ne), hence the same result (the same
\* not-a-number outcome on empty input).
C4_SameClosedForm ==
    LET ne == NE(x, y)
        n == Len(x)
    IN EqualLength =>
        /\ Called("rogers_tanimoto") =>
             out.st = "ok" /\ out.v = RatioOrNaN(2 * ne, n + ne) /\ out = sokal_michener(x, y)
        /\ Called("sokal_michener") =>
             out.st = "ok" /\ out.v = RatioOrNaN(2 * ne, n + ne) /\ out = rogers_tanimoto(x, y)

C4_Witness ==
    /\ Called("sokal_michener") /\ EqualLength
    /\ NE(x, y) = 2 /\ Len(x) = 3
    /\ out.v = Rat(4, 5) /\ rogers_tanimoto(x, y).v = Rat(4, 5)

BinarySetMetrics ==
    {"jaccard", "dice", "matching", "kulsinski", "rogers_tanimoto", "sokal_michener",
     "sokal_sneath", "russell_rao", "yule"}

\* C6: every binary-set metric called with len(x) # len(y) panics and never
\* returns a number, whether y is the shorter or the longer vector.
C6_MismatchRejected ==
    (fn \in BinarySetMetrics /\ Len(x) # Len(y)) => out.st = "panic"

(***************************************************************************)
(* Exact sums over the entries, stated without the accumulating loops.     *)
(***************************************************************************)
RECURSIVE IntSum(_)
IntSum(vs) == IF vs = <<>> THEN 0 ELSE Head(vs) + IntSum(Tail(vs))

Squares(vs) == [i \in Idx(vs) |-> vs[i] * vs[i]]
Products(xs, ys) == [i \in Idx(xs) |-> xs[i] * ys[i]]
\* n times the centred squared norm, and n times the centred dot product
CenteredNorm(vs) == Len(vs) * IntSum(Squares(vs)) - IntSum(vs) * IntSum(vs)
CenteredDot(xs, ys) == Len(xs) * IntSum(Products(xs, ys)) - IntSum(xs) * IntSum(ys)

\* C7: manhattan, canberra, euclidean and chebyshev called with
\* len(x) # len(y), and haversine called with a vector whose length is not 2,
\* panic before reading any entry and return no value; when the precondition
\* holds they do not panic.
C7_LengthContract ==
    /\ fn \in {"manhattan", "canberra", "euclidean", "chebyshev"} =>
         IF Len(x) # Len(y) THEN out.st = "panic" /\ out.reads = 0 ELSE out.st = "ok"
    /\ Called("haversine") =>
         IF Len(x) # 2 \/ Len(y) # 2 THEN out.st = "panic" /\ out.reads = 0 ELSE out.st = "ok"

\* haversine on two 3-dimensional points
C7_Witness == Called("haversine") /\ Len(x) = 3 /\ Len(y) = 3 /\ out.st = "panic"

\* C8: every elementary metric taking two vectors panics when
\* len(x) # len(y) and never returns a value computed from a truncated
\* pairing.
C8_MismatchRejected ==
    (fn # "none" /\ Len(x) # Len(y)) => out.st = "panic"

CosineBothZero == IntSum(Squares(x)) = 0 /\ IntSum(Squares(y)) = 0
CosineOneZero == (IntSum(Squares(x)) = 0) # (IntSum(Squares(y)) = 0)
HellingerBothZero == IntSum(x) = 0 /\ IntSum(y) = 0
HellingerOneZero == (IntSum(x) = 0) # (IntSum(y) = 0)
CorrelationBothZero == CenteredNorm(x) = 0 /\ CenteredNorm(y) = 0
CorrelationDotZero == ~CorrelationBothZero /\ CenteredDot(x, y) = 0

\* the inputs on which cosine, hellinger or correlation returns a fixed 0 or 1
SentinelCase ==
    \/ Called("cosine") /\ (CosineBothZero \/ CosineOneZero)
    \/ Called("hellinger") /\ (HellingerBothZero \/ HellingerOneZero)
    \/ Called("correlation") /\ (CorrelationBothZero \/ CorrelationDotZero)

\* C9 as stated: in the cases where cosine, hellinger and correlation return
\* their fixed 0 or 1, no division is performed.
C9_NoDivisionInSentinelCases ==
    (EqualLength /\ SentinelCase) => out.divs = 0

\* C9, amended: on equal-length inputs cosine returns exactly 0 when both
\* squared norms are zero and exactly 1 when exactly one is zero; hellinger the
\* same on the element sums; correlation returns exactly 0 when both centred
\* norms are zero and exactly 1 when the centred dot product is zero but not
\* both centred norms are.  cosine and hellinger perform no division in these
\* cases; correlation performs only the two divisions by the length that
\* compute the means, and not the final quotient.
C9_SentinelResults ==
    EqualLength =>
        /\ Called("cosine") =>
             /\ CosineBothZero => out = Ok(Zero, 6 * Len(x), 0)
             /\ CosineOneZero => out = Ok(One, 6 * Len(x), 0)
        /\ Called("hellinger") =>
             /\ HellingerBothZero => out = Ok(Zero, 4 * Len(x), 0)
             /\ HellingerOneZero => out = Ok(One, 4 * Len(x), 0)
        /\ Called("correlation") =>
             /\ CorrelationBothZero => out = Ok(Zero, 4 * Len(x), 2)
             /\ CorrelationDotZero => out = Ok(One, 4 * Len(x), 2)
        /\ (fn \in {"cosine", "hellinger", "correlation"} /\ ~SentinelCase) =>
             out.divs = (IF Called("correlation") THEN 3 ELSE 1)

\* correlation of a constant vector with a non-constant one
C9_Witness ==
    /\ Called("correlation") /\ EqualLength /\ Len(x) = 3
    /\ CenteredNorm(x) = 0 /\ CenteredNorm(y) # 0
    /\ out.v = One /\ out.divs = 2

AbsSums(xs, ys) == [i \in Idx(xs) |-> Abs(xs[i] + ys[i])]
ZeroDenominators(xs, ys) == {i \in Idx(xs) : Abs(xs[i]) + Abs(ys[i]) = 0}

RECURSIVE CanberraTerms(_, _, _)
\* the sum of |x_i - y_i| / (|x_i| + |y_i|) over the indices in S
CanberraTerms(xs, ys, S) ==
    IF S = {} THEN Zero
    ELSE LET i == CHOOSE j \in S : TRUE
         IN FAdd(Rat(Abs(xs[i] - ys[i]), Abs(xs[i]) + Abs(ys[i])),
                 CanberraTerms(xs, ys, S \ {i}))

\* C10: zero denominators produce neither NaN nor Inf in bray_curtis and
\* canberra: bray_curtis returns exactly 0 when the sum of |x_i + y_i| is 0
\* (empty input and x = -y included); canberra adds nothing for an index with
\* |x_i| + |y_i| = 0, so canberra of two all-zero vectors is 0.
C10_ZeroDenominators ==
    EqualLength =>
        /\ Called("bray_curtis") =>
             /\ out.st = "ok" /\ IsRat(out.v)
             /\ IntSum(AbsSums(x, y)) = 0 => (out.v = Zero /\ out.divs = 0)
        /\ Called("canberra") =>
             /\ out.st = "ok" /\ IsRat(out.v)
             /\ out.v = CanberraTerms(x, y, Idx(x) \ ZeroDenominators(x, y))
             /\ out.divs = Len(x) - Cardinality(ZeroDenominators(x, y))
             /\ ZeroDenominators(x, y) = Idx(x) => out.v = Zero

\* canberra on a pair with one zero-denominator index and two others
C10_Witness ==
    /\ Called("canberra") /\ EqualLength /\ Len(x) = 3
    /\ Cardinality(ZeroDenominators(x, y)) = 1
    /\ out.v = R(2)

(***************************************************************************)
(* Coordinate differences of two equal-length vectors, stated on integers. *)
(***************************************************************************)
AbsDiff(xs, ys, i) == Abs(xs[i] - ys[i])
MaxAbsDiff(xs, ys) ==
    IF xs = <<>> THEN 0
    ELSE CHOOSE m \in {AbsDiff(xs, ys, i) : i \in Idx(xs)} :
           \A i \in Idx(xs) : AbsDiff(xs, ys, i) <= m
\* the lowest index achieving the maximum
FirstArgMax(xs, ys) ==
    CHOOSE i \in Idx(xs) :
      /\ AbsDiff(xs, ys, i) = MaxAbsDiff(xs, ys)
      /\ \A j \in 1..(i - 1) : AbsDiff(xs, ys, j) < MaxAbsDiff(xs, ys)
IntSign(n) == IF n < 0 THEN -1 ELSE IF n = 0 THEN 0 ELSE 1
IsZeroVector(g, n) == Len(g) = n /\ \A i \in 1..n : g[i] = Zero

\* C11: on equal-length inputs chebyshev_grad returns max_i |x_i - y_i| and a
\* gradient of length len(x) that is zero everywhere except at the lowest index
\* achieving that maximum, where it is sign(x_i - y_i); when the maximum is 0
\* (identical or empty vectors) the gradient is all-zero.
C11_ChebyshevGradFirstMaximum ==
    (Called("chebyshev_grad") /\ EqualLength) =>
        /\ out.st = "ok"
        /\ out.v = R(MaxAbsDiff(x, y))
        /\ Len(out.grad) = Len(x)
        /\ \A i \in Idx(x) :
             out.grad[i] = IF MaxAbsDiff(x, y) > 0 /\ i = FirstArgMax(x, y)
                           THEN R(IntSign(x[i] - y[i]))
                           ELSE Zero

\* two coordinates tie for the maximum with opposite signs
C11_Witness ==
    /\ Called("chebyshev_grad")
    /\ EqualLength
    /\ \E i, j \in Idx(x) :
         /\ i < j
         /\ AbsDiff(x, y, i) = MaxAbsDiff(x, y)
         /\ AbsDiff(x, y, j) = MaxAbsDiff(x, y)
         /\ IntSign(x[i] - y[i]) = 1
         /\ IntSign(x[j] - y[j]) = -1
         /\ i = FirstArgMax(x, y)
         /\ out.grad[i] = One
         /\ out.grad[j] = Zero

\* C12: on equal-length inputs, whenever a gradient variant takes its degenerate
\* branch the gradient is the all-zero vector of length len(x): cosine_grad and
\* hellinger_grad when both norms/sums are zero (distance 0) or exactly one is
\* (distance 1), bray_curtis_grad when the denominator sum is zero (distance 0),
\* and canberra_grad at every index whose term has a zero denominator.
C12_DegenerateGradientIsZero ==
    /\ (Called("cosine_grad") /\ EqualLength /\ (CosineBothZero \/ CosineOneZero)) =>
           /\ out.st = "ok"
           /\ out.v = IF CosineBothZero THEN Zero ELSE One
           /\ IsZeroVector(out.grad, Len(x))
    /\ (Called("hellinger_grad") /\ EqualLength /\ (HellingerBothZero \/ HellingerOneZero)) =>
           /\ out.st = "ok"
           /\ out.v = IF HellingerBothZero THEN Zero ELSE One
           /\ IsZeroVector(out.grad, Len(x))
    /\ (Called("bray_curtis_grad") /\ EqualLength /\ IntSum(AbsSums(x, y)) = 0) =>
           /\ out.st = "ok"
           /\ out.v = Zero
           /\ IsZeroVector(out.grad, Len(x))
    /\ (Called("canberra_grad") /\ EqualLength) =>
           /\ out.st = "ok"
           /\ Len(out.grad) = Len(x)
           /\ \A i \in ZeroDenominators(x, y) : out.grad[i] = Zero

\* hellinger_grad on a zero-sum x against a y with a non-zero entry
C12_Witness ==
    /\ Called("hellinger_grad")
    /\ EqualLength
    /\ HellingerOneZero
    /\ IntSum(x) = 0
    /\ \E i \in Idx(y) : y[i] # 0
    /\ out.v = One
    /\ IsZeroVector(out.grad, Len(x))

\* the call made was of the gradient variant g and returned the outcome
\* (panic or distance) of the forward metric
SameDistance(g, forward) ==
    (Called(g) /\ EqualLength) =>
        /\ out.st = forward.st
        /\ out.st = "ok" => FSame(out.v, forward.v)

\* C13: each gradient variant returns, as its first component, the value its
\* forward metric returns on the same equal-length inputs: manhattan_grad,
\* chebyshev_grad, canberra_grad, bray_curtis_grad, cosine_grad, hellinger_grad
\* and haversine_grad against manhattan, chebyshev, canberra, bray_curtis,
\* cosine, hellinger and haversine.
C13_GradientReturnsForwardValue ==
    /\ SameDistance("manhattan_grad", manhattan(x, y))
    /\ SameDistance("chebyshev_grad", chebyshev(x, y))
    /\ SameDistance("canberra_grad", canberra(x, y))
    /\ SameDistance("bray_curtis_grad", bray_curtis(x, y))
    /\ SameDistance("cosine_grad", cosine(x, y))
    /\ SameDistance("hellinger_grad", hellinger(x, y))
    /\ SameDistance("haversine_grad", haversine(x, y))

\* the call returned a value, the one of the outcome other
SameValue(other) == out.st = "ok" /\ other.st = "ok" /\ FSame(out.v, other.v)

\* C14: on equal-length inputs an absent optional parameter reduces the
\* generalised metric to its plain form: standardised_euclidean(x, y, None)
\* equals standardised_euclidean(x, y, Some(ones)) and euclidean(x, y);
\* mahalanobis(x, y, None) equals mahalanobis with the identity matrix and
\* euclidean(x, y); weighted_minkowski(x, y, None, p) equals minkowski(x, y, p).
C14_AbsentParameterIsPlainMetric ==
    /\ (Called("standardised_euclidean") /\ EqualLength /\ ~arg.sigma.some) =>
           /\ SameValue(standardised_euclidean(x, y, Some(ones_vector(Len(x)))))
           /\ SameValue(euclidean(x, y))
    /\ (Called("mahalanobis") /\ EqualLength /\ ~arg.vinv.some) =>
           /\ SameValue(mahalanobis(x, y, Some(identity_matrix(Len(x)))))
           /\ SameValue(euclidean(x, y))
    /\ (Called("weighted_minkowski") /\ EqualLength /\ ~arg.w.some) =>
           SameValue(minkowski(x, y, arg.p))

\* mahalanobis without a matrix on two vectors differing in two coordinates
C14_Witness ==
    /\ Called("mahalanobis")
    /\ EqualLength
    /\ ~arg.vinv.some
    /\ Cardinality({i \in Idx(x) : x[i] # y[i]}) >= 2
    /\ SameValue(euclidean(x, y))
    /\ ~FIsZero(out.v)

\* C15: on equal-length inputs minkowski(x, y, 1) equals manhattan(x, y) and
\* minkowski(x, y, 2) equals euclidean(x, y); the accumulated sums of
\* |x_i - y_i|^p are the sum of absolute differences and the sum of squared
\* differences respectively.
C15_MinkowskiOneAndTwo ==
    /\ (Called("minkowski") /\ EqualLength /\ arg.p = R(1)) =>
           /\ SameValue(manhattan(x, y))
           /\ minkowski_loop(x, y, R(1), Len(x)) = manhattan_sum(x, y, Len(x))
    /\ (Called("minkowski") /\ EqualLength /\ arg.p = R(2)) =>
           /\ SameValue(euclidean(x, y))
           /\ minkowski_loop(x, y, R(2), Len(x)) = euclidean_loop(x, y, Len(x))

\* p = 2 on vectors whose squared differences sum to a non-square
C15_Witness ==
    /\ Called("minkowski")
    /\ EqualLength
    /\ arg.p = R(2)
    /\ ~IsSquare(IntSum([i \in Idx(x) |-> (x[i] - y[i]) * (x[i] - y[i])]))
    /\ SameValue(euclidean(x, y))

\* C16: minkowski with p = +infinity is the Chebyshev distance: on equal-length
\* inputs minkowski(x, y, +inf) equals chebyshev(x, y) = max_i |x_i - y_i|.
C16_MinkowskiInfinityIsChebyshev ==
    (Called("minkowski") /\ EqualLength /\ arg.p = PosInf) =>
        /\ SameValue(chebyshev(x, y))
        /\ out.v = R(MaxAbsDiff(x, y))

\* what minkowski returns for p = +infinity: the sum is raised to the power
\* 1/inf = 0, which is 1 whatever the sum
MinkowskiInfinityIsOne ==
    (Called("minkowski") /\ EqualLength /\ arg.p = PosInf) => out.v = One

\* the call made was of m and returned what the call with the two vectors
\* swapped returns
Symmetric(m, swapped) == (Called(m) /\ EqualLength) => SameValue(swapped)

IsSymmetricMatrix(m) == \A i, j \in 1..Len(m) : m[i][j] = m[j][i]

\* C17: swapping the two equal-length input vectors does not change the
\* result of euclidean, manhattan, chebyshev, minkowski(p), bray_curtis,
\* canberra, hamming, cosine and correlation, nor of mahalanobis when the
\* matrix is symmetric (or absent).
C17_SwapSymmetry ==
    /\ Symmetric("euclidean", euclidean(y, x))
    /\ Symmetric("manhattan", manhattan(y, x))
    /\ Symmetric("chebyshev", chebyshev(y, x))
    /\ Symmetric("minkowski", minkowski(y, x, arg.p))
    /\ Symmetric("bray_curtis", bray_curtis(y, x))
    /\ Symmetric("canberra", canberra(y, x))
    /\ Symmetric("hamming", hamming(y, x))
    /\ Symmetric("cosine", cosine(y, x))
    /\ Symmetric("correlation", correlation(y, x))
    /\ (arg.vinv.some => IsSymmetricMatrix(arg.vinv.val)) =>
           Symmetric("mahalanobis", mahalanobis(y, x, arg.vinv))

\* cosine on two different vectors with different non-zero norms
C17_Witness ==
    /\ Called("cosine")
    /\ EqualLength
    /\ x # y
    /\ IntSum(Squares(x)) = 2
    /\ IntSum(Squares(y)) = 3
    /\ IsTerm(out.v)
    /\ SameValue(cosine(y, x))

\* the metrics of which identical inputs are claimed to give 0
ZeroOnIdentical ==
    {"euclidean", "manhattan", "chebyshev", "bray_curtis", "canberra",
     "jaccard", "dice", "kulsinski", "sokal_sneath", "matching", "rogers_tanimoto",
     "russell_rao"}

SigmaHasZero ==
    /\ arg.sigma.some
    /\ Len(arg.sigma.val) = Len(x)
    /\ \E i \in Idx(x) : FIsZero(arg.sigma.val[i])
    /\ \A i \in Idx(x) : ~FGt(Zero, arg.sigma.val[i])

\* C19: in standardised_euclidean a zero sigma_i drives the i-th term to
\* +infinity and the returned distance is +infinity (never NaN, never finite,
\* never a panic), for every equal-length x, y and every sigma with at least
\* one zero entry and no negative entry.
C19_ZeroSigmaGivesInfinity ==
    (Called("standardised_euclidean") /\ EqualLength /\ SigmaHasZero) =>
        (out.st = "ok" /\ out.v = PosInf)

\* what the code does with a zero sigma_i: +infinity when x and y differ at
\* every index whose sigma is zero, NaN as soon as they agree at one of them
ZeroSigmaOutcome ==
    (Called("standardised_euclidean") /\ EqualLength /\ SigmaHasZero) =>
        /\ out.st = "ok"
        /\ out.v = IF \E i \in Idx(x) : FIsZero(arg.sigma.val[i]) /\ x[i] = y[i]
                   THEN NaN ELSE PosInf

\* C20: standardised_euclidean and standardised_euclidean_grad panic whenever
\* a provided sigma does not have the length of x and y, shorter or longer; no
\* result is computed with a sigma of a different length.
C20_SigmaLengthRejected ==
    (/\ fn \in {"standardised_euclidean", "standardised_euclidean_grad"}
     /\ EqualLength
     /\ arg.sigma.some
     /\ Len(arg.sigma.val) # Len(x)) => out.st = "panic"

\* the part of the contract the code keeps: the gradient variant rejects every
\* sigma of another length, the forward metric every shorter one
SigmaLengthAsChecked ==
    /\ (Called("standardised_euclidean_grad") /\ EqualLength /\ arg.sigma.some
        /\ Len(arg.sigma.val) # Len(x)) => out.st = "panic"
    /\ (Called("standardised_euclidean") /\ EqualLength /\ arg.sigma.some) =>
           (out.st = "panic" <=> Len(arg.sigma.val) < Len(x))

\* delta = 2 ||u - v||^2 / ((1 - ||u||^2)(1 - ||v||^2)) of two equal-length
\* vectors, from the exact integer sums
PoincareDelta(us, vs) ==
    FDiv(R(2 * IntSum([i \in Idx(us) |-> (us[i] - vs[i]) * (us[i] - vs[i])])),
         R((1 - IntSum(Squares(us))) * (1 - IntSum(Squares(vs)))))

\* C21: poincare(u, v) returns exactly 0 when both inputs are all-zero vectors,
\* decided before any division, and otherwise returns arcosh(1 + delta) with
\* delta = 2*||u-v||^2 / ((1-||u||^2)(1-||v||^2)): the outer function applied
\* to 1 + delta is the inverse hyperbolic cosine.
C21_PoincareIsArcosh ==
    (Called("poincare") /\ EqualLength) =>
        /\ out.st = "ok"
        /\ IF AllZero(x) /\ AllZero(y)
           THEN out.v = Zero /\ out.divs = 0
           ELSE FSame(out.v, FAcosh(FAdd(One, PoincareDelta(x, y))))

\* what the code applies to 1 + delta: ln_1p, that is ln(2 + delta)
PoincareIsLn1p ==
    (Called("poincare") /\ EqualLength) =>
        /\ out.st = "ok"
        /\ IF AllZero(x) /\ AllZero(y)
           THEN out.v = Zero /\ out.divs = 0
           ELSE FSame(out.v, FLn1p(FAdd(One, PoincareDelta(x, y))))

\* a value that is neither NaN nor an infinity
IsFinite(v) == v.t \notin {"nan", "inf", "ninf"}

\* the bilinear form s*t - x.y of two equal-length integer vectors is <= 1,
\* decided on the integers: (1 + ||x||^2)(1 + ||y||^2) <= (1 + x.y)^2
BilinearFormAtMostOne ==
    LET d == 1 + IntSum(Products(x, y))
    IN d >= 0 /\ (1 + IntSum(Squares(x))) * (1 + IntSum(Squares(y))) <= d * d

BUsedAboveOne == IF IsRat(out.b) THEN FGt(out.b, One) ELSE ~BilinearFormAtMostOne

\* C22: in hyperboloid_grad, whenever the computed bilinear form
\* B = s*t - x.y is <= 1 it is replaced by 1 + epsilon (epsilon = 1e-8) before
\* use, so that where sqrt(B - 1) and acosh(B) are evaluated B is strictly
\* greater than 1, at single and at double precision, and the returned distance
\* and gradient are finite for all finite inputs.
C22_ClampKeepsBAboveOne ==
    (Called("hyperboloid_grad") /\ EqualLength) =>
        /\ out.st = "ok"
        /\ BUsedAboveOne
        /\ IsFinite(out.v)
        /\ \A i \in Idx(x) : IsFinite(out.grad[i])

\* at double precision the clamp does what C22 says
ClampKeepsBAboveOneF64 ==
    (Called("hyperboloid_grad") /\ EqualLength /\ arg.prec = "f64") =>
        /\ out.st = "ok"
        /\ BUsedAboveOne
        /\ BilinearFormAtMostOne => out.b = FAdd(One, Rat(1, 100000000))
        /\ IsFinite(out.v)
        /\ \A i \in Idx(x) : IsFinite(out.grad[i])

\* at single precision a clamped B is exactly 1: the distance is 0 and the
\* gradient coefficient is 1/0, which makes the gradient at the origin NaN
ClampIsOneF32 ==
    (Called("hyperboloid_grad") /\ EqualLength /\ arg.prec = "f32"
        /\ BilinearFormAtMostOne) =>
        /\ out.b = One
        /\ out.v = Zero
        /\ AllZero(x) => \A i \in Idx(x) : IsNaN(out.grad[i])

\* C23: in the counting pass over equal-length vectors of length n an entry
\* counts as true iff it is not zero, every index falls in exactly one of the
\* four classes, and the four counts used by yule are all >= 0 and sum to
\* exactly n; in jaccard the non-zero count equals tt + tf + ft.
C23_CountsPartitionTheIndices ==
    /\ (Called("yule") /\ EqualLength) =>
          LET c == yule_counts(x, y)
          IN /\ c.num_true_true = TT(x, y)
             /\ c.num_true_false = TF(x, y)
             /\ c.num_false_true = FT(x, y)
             /\ c.num_false_false = FF(x, y)
             /\ c.num_true_true >= 0 /\ c.num_true_false >= 0
             /\ c.num_false_true >= 0 /\ c.num_false_false >= 0
             /\ c.num_true_true + c.num_true_false
                    + c.num_false_true + c.num_false_false = Len(x)
             /\ \A i \in Idx(x) :
                    Cardinality({k \in {"tt", "tf", "ft", "ff"} :
                        /\ (k \in {"tt", "tf"}) = (x[i] # 0)
                        /\ (k \in {"tt", "ft"}) = (y[i] # 0)}) = 1
    /\ (Called("jaccard") /\ EqualLength) =>
          LET c == jaccard_loop(x, y, Len(x))
          IN /\ c.num_non_zero = TT(x, y) + TF(x, y) + FT(x, y)
             /\ c.num_equal = TT(x, y)

\* yule on a pair where each of the four classes holds an index, one entry
\* being a non-zero value other than 1
C23_Witness ==
    /\ Called("yule") /\ Len(x) = 4 /\ Len(y) = 4 /\ out.st = "ok"
    /\ TT(x, y) = 1 /\ TF(x, y) = 1 /\ FT(x, y) = 1 /\ FF(x, y) = 1
    /\ \E i \in Idx(x) : x[i] = 2

\* a finite value v with lo <= v <= hi, for whole numbers lo and hi
InRange(v, lo, hi) ==
    IsRat(v) /\ lo * Den(v) <= Num(v) /\ Num(v) <= hi * Den(v)

UnitRangeMetrics ==
    {"jaccard", "dice", "matching", "kulsinski", "rogers_tanimoto",
     "sokal_michener", "sokal_sneath", "russell_rao", "hamming"}

\* C28: for all non-empty equal-length inputs the results of jaccard, dice,
\* matching, kulsinski, rogers_tanimoto, sokal_michener, sokal_sneath,
\* russell_rao and hamming lie in the closed interval [0, 1], and the result
\* of yule lies in [0, 2].
C28_ResultRanges ==
    (EqualLength /\ x # <<>>) =>
        /\ fn \in UnitRangeMetrics => out.st = "ok" /\ InRange(out.v, 0, 1)
        /\ Called("yule") => out.st = "ok" /\ InRange(out.v, 0, 2)

\* yule at the top of its range, and a unit-range metric at the top of its own
C28_Witness ==
    \/ Called("yule") /\ EqualLength /\ x # <<>> /\ out.st = "ok" /\ out.v = R(2)
    \/ Called("rogers_tanimoto") /\ EqualLength /\ x # <<>> /\ out.st = "ok" /\ out.v = One

IsBinary(vs) == \A i \in Idx(vs) : vs[i] \in {0, 1}
\* the vector of the truth values of the entries, as 0 and 1
Truth(vs) == [i \in Idx(vs) |-> IF vs[i] # 0 THEN 1 ELSE 0]
Differing(xs, ys) == Cardinality({i \in Idx(xs) : xs[i] # ys[i]})

\* C29: for all equal-length vectors whose entries are all 0 or 1, hamming(x, y)
\* equals matching(x, y), both being the number of differing positions divided
\* by the length; matching depends only on which entries are non-zero, whereas
\* hamming compares the raw values.
C29_HammingIsMatchingOnBinary ==
    EqualLength =>
        /\ Called("hamming") =>
              /\ out.st = "ok"
              /\ out.v = FDiv(R(Differing(x, y)), R(Len(x)))
              /\ (IsBinary(x) /\ IsBinary(y)) => out.v = matching(x, y).v
        /\ Called("matching") =>
              /\ out.st = "ok"
              /\ out.v = FDiv(R(Differing(Truth(x), Truth(y))), R(Len(x)))
              /\ out.v = matching(Truth(x), Truth(y)).v
              /\ (IsBinary(x) /\ IsBinary(y)) => out.v = hamming(x, y).v

\* a 0/1 pair with differing and agreeing positions on which hamming was called
C29_Witness ==
    /\ Called("hamming") /\ EqualLength /\ IsBinary(x) /\ IsBinary(y)
    /\ Differing(x, y) = 1 /\ Len(x) = 3 /\ TT(x, y) = 1
    /\ out.st = "ok" /\ out.v = Rat(1, 3)

\* outside 0/1 the two differ: the values 1 and 2 are both true
HammingRawValuesCase ==
    /\ Called("hamming") /\ x = <<1>> /\ y = <<2>>
    /\ out.v = One /\ matching(x, y).v = Zero

(***************************************************************************)
(* The series value of log_beta as a combination of logarithms.            *)
(***************************************************************************)
RECURSIVE LnCoef(_, _)
\* the coefficient of ln(q) in a value built from logarithms by +, - and
\* negation (0 in a rational constant)
LnCoef(v, q) ==
    IF v.t = "ln" THEN (IF v.a[1] = q THEN 1 ELSE 0)
    ELSE IF v.t = "add" THEN LnCoef(v.a[1], q) + LnCoef(v.a[2], q)
    ELSE IF v.t = "sub" THEN LnCoef(v.a[1], q) - LnCoef(v.a[2], q)
    ELSE IF v.t = "neg" THEN -LnCoef(v.a[1], q)
    ELSE 0

\* the arguments at which a logarithm of a series value is taken
LnAtoms(b) == {b} \cup {R(i) : i \in 1..4} \cup {FAdd(b, R(i)) : i \in 1..4}

\* the coefficient of ln(q) in -ln(b) + sum over i = 1..n of (ln(i) - ln(b+i));
\* ln(1) is the constant 0
SeriesCoef(b, n, q) ==
    (IF q = b /\ q # One THEN -1 ELSE 0)
    + Cardinality({i \in 1..n : q = R(i) /\ i # 1})
    - Cardinality({i \in 1..n : q = FAdd(b, R(i))})

\* v is -ln(b) + sum over i = 1..n of (ln(i) - ln(b+i)), for 0 < b
IsSeries(v, b, n) ==
    /\ IsTerm(v) \/ IsRat(v)
    /\ IsRat(v) => Num(v) = 0
    /\ \A q \in LnAtoms(b) : LnCoef(v, q) = SeriesCoef(b, n, q)

IsWhole(v) == IsRat(v) /\ Den(v) = 1
\* max(x, y) < 5, as the code tests it
BelowFive(v) == FGt(R(5), v)
LogBetaCalls == {"log_beta", "dirichlet_log_beta"}

\* the same log_beta function applied to two scalars
BetaFn(name, u, v) == IF name = "log_beta" THEN log_beta(u, v) ELSE dirichlet_log_beta(u, v)

\* the branch is selected on max(x, y) alone; in the series branch the value is
\* -ln(b) + sum over i = 1..a-1 of (ln(i) - ln(b+i)) after a-1 iterations for a
\* whole a >= 1 (and -ln(b) after none for a <= 1); the swapped call returns
\* the same value
BranchAndSeries ==
    LET a == FMin(x, y)
        b == FMax(x, y)
    IN /\ (out.branch = "series") = BelowFive(b)
       /\ (out.branch = "asymptotic") = ~BelowFive(b)
       /\ (BelowFive(b) /\ ~FGt(a, One)) => out.v = FNeg(FLn(b)) /\ out.iters = 0
       /\ (BelowFive(b) /\ IsWhole(a) /\ Num(a) >= 1) =>
             IsSeries(out.v, b, Num(a) - 1) /\ out.iters = Num(a) - 1
       /\ SameValue(BetaFn(fn, y, x))

\* `a.to_i64()` is None: a minimum that is no finite value
NoWholePart(v) == ~IsRat(v)

Combined(g(_), u, v) == FSub(FAdd(g(u), g(v)), g(FAdd(u, v)))

\* C25: when max(x, y) >= 5, log_beta(x, y) returns log_single_beta(x) +
\* log_single_beta(y) - log_single_beta(x + y); this holds for the public
\* log_beta as well as for the log_beta used inside ll_dirichlet.
C25_AsymptoticIsLogSingleBeta ==
    (fn \in LogBetaCalls /\ ~BelowFive(FMax(x, y))) =>
        /\ out.st = "ok"
        /\ FSame(out.v, Combined(log_single_beta, x, y))

\* what the two functions return in the asymptotic branch: the private one the
\* log_single_beta combination, the public one the approx_log_gamma combination
AsymptoticBranches ==
    ~BelowFive(FMax(x, y)) =>
        /\ Called("dirichlet_log_beta") =>
              out.st = "ok" /\ FSame(out.v, Combined(log_single_beta, x, y))
        /\ Called("log_beta") =>
              /\ out.st = "ok" /\ FSame(out.v, Combined(approx_log_gamma, x, y))
              /\ (x = R(10) /\ y = R(10)) =>
                    ~FSame(out.v, Combined(log_single_beta, x, y))

\* the other of the two log_beta functions on the same arguments
OtherBeta == IF Called("log_beta") THEN dirichlet_log_beta(x, y) ELSE log_beta(x, y)

\* two series outcomes with the same number of iterations and the same value:
\* the same special value, or the same coefficient at every logarithm
SameSeries(o1, o2) ==
    /\ o1.st = "ok" /\ o2.st = "ok"
    /\ o1.iters = o2.iters
    /\ IF IsTerm(o1.v) /\ IsTerm(o2.v)
       THEN \A q \in LnAtoms(FMax(x, y)) : LnCoef(o1.v, q) = LnCoef(o2.v, q)
       ELSE o1.v.t = o2.v.t /\ o1.v = o2.v

\* C30: the public log_beta (loop `while i < a` over floating i) and the
\* log_beta used by ll_dirichlet (loop `for i in 1..a.to_i64()`) execute the
\* same series iterations, over the same indices i, for every pair (x, y) with
\* max(x, y) < 5, for integer-valued and for non-integer a = min(x, y) alike,
\* so both return the same series value.
C30_SameSeriesInBothLogBetas ==
    (fn \in LogBetaCalls /\ BelowFive(FMax(x, y))) => SameSeries(out, OtherBeta)

\* the two agree when min(x, y) is a whole number or at most 1; for a
\* non-integer minimum above 1 the public loop runs one iteration more, the
\* index trunc(a), and for a minimum without an i64 value the private one
\* panics
SeriesAgreeOnWholeMin ==
    (fn \in LogBetaCalls /\ BelowFive(FMax(x, y))) =>
        LET a == FMin(x, y)
        IN IF NoWholePart(a)
           THEN log_beta(x, y).st = "ok" /\ dirichlet_log_beta(x, y).st = "panic"
           ELSE IF IsWhole(a) \/ ~FGt(a, One)
           THEN SameSeries(out, OtherBeta)
           ELSE /\ log_beta(x, y).iters = to_i64(a).val
                /\ dirichlet_log_beta(x, y).iters = to_i64(a).val - 1

\* a count above the threshold 0.9
IsPositive(v) == FGt(v, PositiveThreshold)

\* C26: in ll_dirichlet, for every coordinate i, log_beta(data1_i, data2_i) is
\* accumulated into the running total iff both data1_i > 0.9 and
\* data2_i > 0.9; log_single_beta(data1_i) is added to self_denom1 iff
\* data1_i > 0.9 and log_single_beta(data2_i) to self_denom2 iff
\* data2_i > 0.9, so a coordinate where only one vector is positive
\* contributes only to that vector's denominator; this for all non-negative
\* counts, not only integer-valued ones.
C26_ThresholdPerCoordinate ==
    (Called("ll_dirichlet") /\ EqualLength) =>
        /\ out.st = "ok"
        /\ \A i \in Idx(x) :
              /\ out.hits[i].log_b = (IsPositive(x[i]) /\ IsPositive(y[i]))
              /\ out.hits[i].self_denom1 = IsPositive(x[i])
              /\ out.hits[i].self_denom2 = IsPositive(y[i])

\* what the loop tests: the product of the two counts against 0.9 first, each
\* count only when the product is not above it; on integer-valued counts this
\* is the rule of C26
ThresholdOnProduct ==
    (Called("ll_dirichlet") /\ EqualLength) =>
        /\ out.st = "ok"
        /\ \A i \in Idx(x) :
              LET both == FGt(FMul(x[i], y[i]), PositiveThreshold)
              IN /\ out.hits[i].log_b = both
                 /\ out.hits[i].self_denom1 = (both \/ IsPositive(x[i]))
                 /\ out.hits[i].self_denom2 = (both \/ IsPositive(y[i]))
                 /\ (IsWhole(x[i]) /\ IsWhole(y[i])) =>
                       /\ both = (IsPositive(x[i]) /\ IsPositive(y[i]))
                       /\ out.hits[i].self_denom1 = IsPositive(x[i])
                       /\ out.hits[i].self_denom2 = IsPositive(y[i])

\* the metrics whose reduction loop reads x[i] and y[i] once per iteration
TwoReadLoops ==
    {"jaccard", "dice", "kulsinski", "sokal_sneath", "yule", "rogers_tanimoto",
     "sokal_michener", "matching", "hamming", "manhattan", "euclidean",
     "chebyshev", "mahalanobis", "weighted_minkowski", "minkowski"}

MahalanobisStepsCase ==
    Called("mahalanobis") /\ Len(x) = MaxDim /\ out.st = "ok" /\ out.steps = MaxDim * MaxDim
NaNSeriesCase ==
    Called("log_beta") /\ IsNaN(x) /\ y = R(3) /\ out.st = "ok" /\ out.iters = 2
NegativeSeriesCase ==
    Called("dirichlet_log_beta") /\ x = R(-1) /\ y = Zero /\ out.st = "ok" /\ out.iters = 0
SeriesPanicCase ==
    Called("dirichlet_log_beta") /\ x = NegInf /\ out.st = "panic"

====
